---- MODULE Spec2Model ----
(***************************************************************************)
(* Drop the Dictator: outcome resolution, payout composition and the       *)
(* session / round lifecycle.                                              *)
(*                                                                         *)
(*   app.py             wallet server: authenticate, play, endround        *)
(*   game_math.py       PayoutEngine, GameMath (layered payout)            *)
(*   config.py          GameConfig (tables, limits, clamp_payout)          *)
(*   event_generator.py SessionManager (create / play_round / end_session) *)
(*                                                                         *)
(* Real numbers (Python floats) are modelled as exact fractions <<n, d>>   *)
(* in lowest terms; money of app.py is counted in units of MoneyScale      *)
(* micro-units so that every amount fits the integers of the checker.      *)
(***************************************************************************)
EXTENDS Integers, Sequences, FiniteSets, TLC

VARIABLES
    program,     \* which program this behaviour runs (they share no state)
    sessions,    \* app.py `sessions`: token -> session record
    rounds,      \* app.py `rounds`: round id -> round record
    hmacTable,   \* digests of provably_fair_rng computed so far, by message
    sha,         \* the sub-draw hash of seeded_random (fixed, arbitrary)
    prior,       \* token -> number of earlier max-bet losing rounds, settled
    credited,    \* round id -> number of times its payout was credited
    resp,        \* the response of the last completed call
    thr,         \* request threads of the server: position and locals
    calc,        \* inputs and result of the last pure evaluation
    smSessions,  \* SessionManager.sessions: user id -> session data
    smResp,      \* result of the last SessionManager call
    smAudit,     \* server seeds generated so far, and those end_session revealed
    rng          \* a ProvablyFairRNG object and the values it returned

vars == <<program, sessions, rounds, hmacTable, sha, prior, credited, resp, thr, calc,
          smSessions, smResp, smAudit, rng>>

----------------------------------------------------------------------------
(* Bounds of the model *)

\* rounds the model lets the server create
MaxRounds == 2
\* resolution of the leading digest bytes: a digest is one of 0..DigestRange-1
\* (a power of two, as 2**32 is)
DigestRange == 256
\* resolution of a sub-draw: a sub-draw is one of 0..SubRange-1 over SubRange
SubRange == 4
\* longest list of collected items handed to the payout engine
MaxItems == 2
\* rounds the model lets one SessionManager session play
MaxSmRounds == 2
\* sessions the model lets the SessionManager create
MaxSeeds == 2
\* values the model lets one ProvablyFairRNG object return
MaxDraws == 2

----------------------------------------------------------------------------
(* Exact fractions *)

RECURSIVE GCD(_, _)
GCD(a, b) == IF b = 0 THEN a ELSE GCD(b, a % b)

Abs(n) == IF n < 0 THEN -n ELSE n

\* the fraction n/d (d > 0) in lowest terms
Frac(n, d) ==
    LET g == GCD(Abs(n), d) IN <<n \div g, d \div g>>

Whole(n) == <<n, 1>>

RAdd(a, b) == Frac(a[1] * b[2] + b[1] * a[2], a[2] * b[2])
RSub(a, b) == Frac(a[1] * b[2] - b[1] * a[2], a[2] * b[2])
RMul(a, b) == Frac(a[1] * b[1], a[2] * b[2])
\* a / b for b > 0
RDiv(a, b) == Frac(a[1] * b[2], a[2] * b[1])
RLt(a, b) == a[1] * b[2] < b[1] * a[2]
RLe(a, b) == a[1] * b[2] <= b[1] * a[2]
RMin(a, b) == IF RLt(b, a) THEN b ELSE a
\* Python int(): truncation toward zero
Trunc(a) == IF a[1] >= 0 THEN a[1] \div a[2] ELSE -((-a[1]) \div a[2])

----------------------------------------------------------------------------
(* app.py: configuration *)

\* micro-units per money unit of the model (half a bet step)
MoneyScale == 500000

MAX_WIN_MULTIPLIER == 5000
MIN_BET == 1000000 \div MoneyScale
MAX_BET == 100000000 \div MoneyScale
STEP_BET == 1000000 \div MoneyScale
\* 10,000.00 starting balance
START_BALANCE == 10000 * (1000000 \div MoneyScale)

GROUND_Y == 19300
DEADZONE == 1500

Tokens == {"s1", "s2"}
\* a token no session was ever created for
UnknownToken == "s0"
Threads == {"t1", "t2"}

\* secrets.token_hex: a value no earlier call returned
generate_server_seed(token) == <<"server_seed", token>>
generate_client_seed(token) == <<"client_seed", token>>

----------------------------------------------------------------------------
(* app.py: provably fair RNG *)

\* int_value / 2**32, at the model's resolution
DigestFraction(h) == Frac(h, DigestRange)

\* the indices calculate_outcome draws sub-values at
SubIndices == {100, 101}

\* sha256(f"{base_rng}:{index}") folded into [0,1): an arbitrary function
\* of (base, index), fixed for the whole behaviour by `sha`; at the indices
\* of the plan generators the digest is an entry of the table shifted by the
\* index
seeded_random(base_rng, index) ==
    LET fold == IF index \in SubIndices
                THEN sha[index]
                ELSE sha[CHOOSE s \in SubIndices : s % 2 = index % 2]
                         + index \div 10
    IN Frac((fold + base_rng[1] + base_rng[2]) % SubRange, SubRange)

ShaTables == [SubIndices -> 0..(SubRange - 1)]

\* the table the programs that keep state are run under; calculate_outcome
\* is evaluated under every table
ZeroTable == [i \in SubIndices |-> 0]

----------------------------------------------------------------------------
(* app.py: calculate_outcome *)

\* ApplyBlackHole without the second cap
ApplyBlackHole_uncapped(multiplier, triggered, bh_multiplier) ==
    IF triggered THEN RMul(multiplier, bh_multiplier) ELSE multiplier

\* the cap applied after the black hole multiplier (lines 141-143)
ApplyBlackHole(multiplier, triggered, bh_multiplier) ==
    IF triggered
    THEN RMin(RMul(multiplier, bh_multiplier), Whole(MAX_WIN_MULTIPLIER))
    ELSE multiplier

\* depth = DEADZONE + int(depth_progress * (GROUND_Y - DEADZONE - margin))
DepthOf(depth_progress, margin) ==
    DEADZONE + Trunc(RMul(depth_progress, Whole(GROUND_Y - DEADZONE - margin)))

\* the tier of the base value: raw multiplier, depth, bonus trigger and value
TierOf(rng_value) ==
    IF RLt(rng_value, Frac(40, 100))
    THEN [multiplier |-> Whole(0),
          terminal_depth_y |->
              DepthOf(RAdd(Frac(5, 100),
                           RMul(RDiv(rng_value, Frac(40, 100)), Frac(15, 100))),
                      1000),
          black_hole_triggered |-> FALSE,
          black_hole_multiplier |-> Whole(1)]
    ELSE IF RLt(rng_value, Frac(75, 100))
    THEN LET normalized == RDiv(RSub(rng_value, Frac(40, 100)), Frac(35, 100))
         IN [multiplier |-> RAdd(Frac(1, 2), RMul(normalized, Frac(3, 2))),
             terminal_depth_y |->
                 DepthOf(RAdd(Frac(3, 10), RMul(normalized, Frac(4, 10))), 500),
             black_hole_triggered |-> FALSE,
             black_hole_multiplier |-> Whole(1)]
    ELSE IF RLt(rng_value, Frac(92, 100))
    THEN LET normalized == RDiv(RSub(rng_value, Frac(75, 100)), Frac(17, 100))
             trig == RLt(seeded_random(rng_value, 100), Frac(3, 10))
         IN [multiplier |-> RAdd(Whole(2), RMul(normalized, Whole(8))),
             terminal_depth_y |->
                 DepthOf(RAdd(Frac(7, 10), RMul(normalized, Frac(25, 100))), 300),
             black_hole_triggered |-> trig,
             black_hole_multiplier |->
                 IF trig
                 THEN RAdd(Frac(3, 2),
                           RMul(seeded_random(rng_value, 101), Frac(3, 2)))
                 ELSE Whole(1)]
    ELSE IF RLt(rng_value, Frac(99, 100))
    THEN LET normalized == RDiv(RSub(rng_value, Frac(92, 100)), Frac(7, 100))
             trig == RLt(seeded_random(rng_value, 100), Frac(6, 10))
         IN [multiplier |-> RAdd(Whole(10), RMul(normalized, Whole(90))),
             terminal_depth_y |-> GROUND_Y - 200,
             black_hole_triggered |-> trig,
             black_hole_multiplier |->
                 IF trig
                 THEN RAdd(Whole(2),
                           RMul(seeded_random(rng_value, 101), Whole(3)))
                 ELSE Whole(1)]
    ELSE LET normalized == RDiv(RSub(rng_value, Frac(99, 100)), Frac(1, 100))
         IN [multiplier |->
                 RMin(RAdd(Whole(100),
                           RMul(normalized, Whole(MAX_WIN_MULTIPLIER - 100))),
                      Whole(MAX_WIN_MULTIPLIER)),
             terminal_depth_y |-> GROUND_Y - 100,
             black_hole_triggered |-> TRUE,
             black_hole_multiplier |->
                 RAdd(Whole(3), RMul(seeded_random(rng_value, 101), Whole(7)))]

\* calculate_outcome that calls a round lost when it pays less than the bet
calculate_outcome_loss_below_bet(rng_value, bet) ==
    LET tier == TierOf(rng_value)
        capped == RMin(tier.multiplier, Whole(MAX_WIN_MULTIPLIER))
        multiplier == ApplyBlackHole(capped, tier.black_hole_triggered,
                                     tier.black_hole_multiplier)
    IN [multiplier |-> multiplier,
        payout |-> Trunc(RMul(Whole(bet), multiplier)),
        terminal_depth_y |-> tier.terminal_depth_y,
        black_hole_triggered |-> tier.black_hole_triggered,
        black_hole_multiplier |-> tier.black_hole_multiplier,
        is_loss |-> RLt(multiplier, Whole(1))]

calculate_outcome(rng_value, bet) ==
    LET tier == TierOf(rng_value)
        capped == RMin(tier.multiplier, Whole(MAX_WIN_MULTIPLIER))
        multiplier == ApplyBlackHole(capped, tier.black_hole_triggered,
                                     tier.black_hole_multiplier)
    IN [multiplier |-> multiplier,
        payout |-> Trunc(RMul(Whole(bet), multiplier)),
        terminal_depth_y |-> tier.terminal_depth_y,
        black_hole_triggered |-> tier.black_hole_triggered,
        black_hole_multiplier |-> tier.black_hole_multiplier,
        is_loss |-> (multiplier = Whole(0))]

----------------------------------------------------------------------------
(* app.py: the world plan *)

CORRIDOR_CENTER == 960
CORRIDOR_WIDTH == 800
\* 320 * 1.7
CLOUD1_W == Frac(320 * 17, 10)

\* the corridor generate_world_plan hands to the generators
Corridor ==
    [center_x |-> CORRIDOR_CENTER,
     width |-> CORRIDOR_WIDTH,
     left_bound |-> CORRIDOR_CENTER - CORRIDOR_WIDTH \div 2,
     right_bound |-> CORRIDOR_CENTER + CORRIDOR_WIDTH \div 2]

\* GuideRow with the gap offset drawn over 1.4 of the corridor width
GuideRow_wide_offset(rng_value, i, num_rows, fall_distance, corridor) ==
    LET y == DEADZONE + Trunc(RMul(Frac(i, num_rows), Whole(fall_distance - 500)))
        row_rng == seeded_random(rng_value, i * 10)
        gap_offset == RMul(RSub(row_rng, Frac(1, 2)),
                           RMul(Whole(corridor.width), Frac(14, 10)))
        gap_center == RAdd(Whole(corridor.center_x), gap_offset)
        gap_width == RAdd(Whole(200), RMul(row_rng, Whole(150)))
        half == RDiv(gap_width, Whole(2))
        left_cloud_x == RSub(RSub(gap_center, half), CLOUD1_W)
        right_cloud_x == RAdd(gap_center, half)
        left == IF RLt(RSub(Whole(corridor.left_bound), CLOUD1_W), left_cloud_x)
                THEN << [x |-> left_cloud_x, y |-> y, type |-> "guide",
                         cloud_type |-> IF RLt(seeded_random(rng_value, i * 10 + 1),
                                                Frac(1, 2)) THEN 1 ELSE 2] >>
                ELSE <<>>
        right == IF RLt(right_cloud_x, Whole(corridor.right_bound))
                 THEN << [x |-> right_cloud_x, y |-> y, type |-> "guide",
                          cloud_type |-> IF RLt(seeded_random(rng_value, i * 10 + 2),
                                                 Frac(1, 2)) THEN 1 ELSE 2] >>
                 ELSE <<>>
    IN left \o right

\* one pass of the loop of generate_guide_clouds: the clouds of row i
GuideRow(rng_value, i, num_rows, fall_distance, corridor) ==
    LET y == DEADZONE + Trunc(RMul(Frac(i, num_rows), Whole(fall_distance - 500)))
        row_rng == seeded_random(rng_value, i * 10)
        gap_offset == RMul(RSub(row_rng, Frac(1, 2)),
                           RMul(Whole(corridor.width), Frac(4, 10)))
        gap_center == RAdd(Whole(corridor.center_x), gap_offset)
        gap_width == RAdd(Whole(200), RMul(row_rng, Whole(150)))
        half == RDiv(gap_width, Whole(2))
        left_cloud_x == RSub(RSub(gap_center, half), CLOUD1_W)
        right_cloud_x == RAdd(gap_center, half)
        left == IF RLt(RSub(Whole(corridor.left_bound), CLOUD1_W), left_cloud_x)
                THEN << [x |-> left_cloud_x, y |-> y, type |-> "guide",
                         cloud_type |-> IF RLt(seeded_random(rng_value, i * 10 + 1),
                                                Frac(1, 2)) THEN 1 ELSE 2] >>
                ELSE <<>>
        right == IF RLt(right_cloud_x, Whole(corridor.right_bound))
                 THEN << [x |-> right_cloud_x, y |-> y, type |-> "guide",
                          cloud_type |-> IF RLt(seeded_random(rng_value, i * 10 + 2),
                                                 Frac(1, 2)) THEN 1 ELSE 2] >>
                 ELSE <<>>
    IN left \o right

\* the clouds of rows 0 .. n-1, in the order the loop appends them
RECURSIVE GuideRows(_, _, _, _, _)
GuideRows(rng_value, n, num_rows, fall_distance, corridor) ==
    IF n = 0
    THEN <<>>
    ELSE GuideRows(rng_value, n - 1, num_rows, fall_distance, corridor)
         \o GuideRow(rng_value, n - 1, num_rows, fall_distance, corridor)

generate_guide_clouds(rng_value, terminal_depth, corridor) ==
    LET fall_distance == terminal_depth - DEADZONE
        row_spacing == 400
        rows == Trunc(Frac(fall_distance, row_spacing))
        num_rows == IF rows > 5 THEN rows ELSE 5
    IN GuideRows(rng_value, num_rows, num_rows, fall_distance, corridor)

\* ClosureCloud with the vertical offset taken downwards
ClosureCloud_below(terminal_depth, corridor, offset) ==
    [x |-> RSub(Whole(corridor.center_x + offset[1]), RDiv(CLOUD1_W, Whole(2))),
     y |-> terminal_depth - offset[2],
     type |-> "terminal",
     cloud_type |-> 1,
     scale |-> Frac(16, 10)]

\* the cloud generate_terminal_closure places for one offset of the template
ClosureCloud(terminal_depth, corridor, offset) ==
    [x |-> RSub(Whole(corridor.center_x + offset[1]), RDiv(CLOUD1_W, Whole(2))),
     y |-> terminal_depth + offset[2],
     type |-> "terminal",
     cloud_type |-> 1,
     scale |-> Frac(16, 10)]

generate_terminal_closure(rng_value, terminal_depth, corridor, is_loss) ==
    LET template_rng == seeded_random(rng_value, 500)
        template_name == IF RLt(template_rng, Frac(33, 100)) THEN "FLAT_SEAL"
                         ELSE IF RLt(template_rng, Frac(66, 100)) THEN "OFFSET_SEAL"
                         ELSE "FUNNEL_COLLAPSE"
        \* offsets <<x, y>> from the corridor centre and the terminal depth
        offsets ==
            CASE template_name = "FLAT_SEAL" ->
                     << <<-450, 0>>, <<-150, 0>>, <<150, 0>>, <<450, 0>> >>
              [] template_name = "OFFSET_SEAL" ->
                     << <<-300, 0>>, <<300, 0>>, <<0, -200>>,
                        <<-600, -200>>, <<600, -200>> >>
              [] template_name = "FUNNEL_COLLAPSE" ->
                     << <<0, 0>>, <<-350, -250>>, <<350, -250>>,
                        <<-700, -500>>, <<700, -500>> >>
    IN [template |-> template_name,
        depth |-> terminal_depth,
        clouds |-> [k \in DOMAIN offsets |->
                       ClosureCloud(terminal_depth, corridor, offsets[k])]]

\* generate_black_hole_position with the progress drawn from 1.1 to 1.3
generate_black_hole_position_deep(rng_value, terminal_depth, corridor) ==
    LET progress == RAdd(Frac(11, 10), RMul(seeded_random(rng_value, 200), Frac(2, 10)))
        y == DEADZONE + Trunc(RMul(progress, Whole(terminal_depth - DEADZONE - 500)))
        x_offset == RMul(RMul(RSub(seeded_random(rng_value, 201), Frac(1, 2)),
                              Whole(corridor.width)), Frac(3, 10))
        x == RSub(RAdd(Whole(corridor.center_x), x_offset), Whole(150))
    IN [x |-> x, y |-> y, will_trigger |-> TRUE]

\* the black hole: 60-80% of the way to the terminal depth, near the centre
\* of the corridor
generate_black_hole_position(rng_value, terminal_depth, corridor) ==
    LET progress == RAdd(Frac(6, 10), RMul(seeded_random(rng_value, 200), Frac(2, 10)))
        y == DEADZONE + Trunc(RMul(progress, Whole(terminal_depth - DEADZONE - 500)))
        x_offset == RMul(RMul(RSub(seeded_random(rng_value, 201), Frac(1, 2)),
                              Whole(corridor.width)), Frac(3, 10))
        x == RSub(RAdd(Whole(corridor.center_x), x_offset), Whole(150))
    IN [x |-> x, y |-> y, will_trigger |-> TRUE]

\* black_hole = None: the plan holds no black hole
NoBlackHole == [none |-> TRUE]

\* generate_world_plan: the corridor, the guide rows, the closure that ends
\* the fall at the outcome's depth, and the black hole of a triggered bonus
generate_world_plan(rng_value, outcome) ==
    LET terminal_depth == outcome.terminal_depth_y
        corridor == Corridor
    IN [terminal_depth |-> terminal_depth,
        corridor |-> corridor,
        guide_clouds |-> generate_guide_clouds(rng_value, terminal_depth, corridor),
        terminal_closure |-> generate_terminal_closure(rng_value, terminal_depth,
                                                       corridor, outcome.is_loss),
        black_hole |-> IF outcome.black_hole_triggered
                       THEN generate_black_hole_position(rng_value, terminal_depth,
                                                         corridor)
                       ELSE NoBlackHole]

\* build_visual_timeline: round_start, the two bonus events of a triggered
\* black hole, round_end
build_visual_timeline(outcome, world_plan) ==
    << [type |-> "round_start", timestamp |-> 0,
        terminal_depth_y |-> outcome.terminal_depth_y,
        max_payout_at_ground |-> outcome.payout,
        black_hole_triggered |-> outcome.black_hole_triggered,
        black_hole_multiplier |-> outcome.black_hole_multiplier,
        world_plan |-> world_plan] >>
    \o (IF outcome.black_hole_triggered
        THEN << [type |-> "bonus_enter", timestamp |-> 5000,
                 multiplier |-> outcome.black_hole_multiplier],
                [type |-> "bonus_exit", timestamp |-> 10000,
                 value |-> outcome.payout] >>
        ELSE <<>>)
    \o << [type |-> "round_end", timestamp |-> 15000, value |-> outcome.payout] >>

----------------------------------------------------------------------------
(* app.py: the session and round stores *)

\* earlier history a session may start the behaviour with: k rounds at
\* MAX_BET that drew a loss (payout 0) and were settled; such a round takes
\* part in nothing but the sums of bets and payouts, so it is kept as a count
PriorLosses == {0, START_BALANCE \div MAX_BET - 1}

\* bets a caller sends: below the minimum, one and a half steps, the maximum,
\* the maximum plus one step
BetInputs == {MIN_BET - 1, MIN_BET + 1, MAX_BET, MAX_BET + STEP_BET}

\* leading digest values play may draw: a loss (0.10) and the jackpot (0.995)
PlayDigests == {DigestRange \div 10, DigestRange - 1}

RoundIds == 1..MaxRounds

Idle == [pc |-> "idle"]

NewSession(token, balance, nonce) ==
    [balance |-> balance,
     server_seed |-> generate_server_seed(token),
     client_seed |-> generate_client_seed(token),
     nonce |-> nonce]

InitServer ==
    /\ \E p \in PriorLosses :
          /\ prior = [t \in Tokens |-> IF t = "s1" THEN p ELSE 0]
          /\ sessions = IF p = 0
                        THEN <<>>
                        ELSE "s1" :> NewSession("s1", START_BALANCE - p * MAX_BET, p)
    /\ rounds = <<>>
    /\ hmacTable = <<>>
    /\ credited = [r \in RoundIds |-> 0]
    /\ resp = [op |-> "none", code |-> "none", session |-> "none", arg |-> 0]
    /\ thr = [t \in Threads |-> Idle]

\* secrets.token_hex(16): an id no round has
NewRoundId == Cardinality(DOMAIN rounds) + 1

\* play_check without the comparison of the bet with the balance
play_check_no_balance(sid, bet) ==
    IF sid \notin DOMAIN sessions THEN "SESSION_EXPIRED"
    ELSE IF bet < MIN_BET THEN "INVALID_BET"
    ELSE IF bet > MAX_BET THEN "INVALID_BET"
    ELSE "OK"

\* the checks of play (lines 467-478): the error code, or "OK"
play_check(sid, bet) ==
    IF sid \notin DOMAIN sessions THEN "SESSION_EXPIRED"
    ELSE IF bet < MIN_BET THEN "INVALID_BET"
    ELSE IF bet > MAX_BET THEN "INVALID_BET"
    ELSE IF bet > sessions[sid].balance THEN "INSUFFICIENT_BALANCE"
    ELSE "OK"

\* session['balance'] -= bet
Debit(balance, bet) == balance - bet

\* Credit that returns the bet along with the payout
Credit_with_stake(balance, payout) == balance + payout + MIN_BET

\* session['balance'] += payout
Credit(balance, payout) == balance + payout

\* secrets.token_hex(32), drawn once when the process starts
SERVER_SECRET == <<"server_secret", "process">>

\* what provably_fair_rng hashes: the key, and the message
\* f"{server_seed}:{client_seed}:{nonce}"
RngMessage(session) ==
    <<SERVER_SECRET, <<session.server_seed, session.client_seed, session.nonce>> >>

\* the digests the keyed hash may return for a message: the one it returned
\* before, or any
DigestsOf(message) ==
    IF message \in DOMAIN hmacTable THEN {hmacTable[message]} ELSE PlayDigests

\* RoundRecord that files the round under the first session of the store
RoundRecord_first_session(sid, bet, nonce, rng_value, outcome) ==
    [session_id |-> CHOOSE s \in DOMAIN sessions : TRUE,
     bet |-> bet,
     drawn_nonce |-> nonce,
     rng_value |-> rng_value,
     outcome |-> outcome,
     world_plan |->
         [corridor |-> Corridor,
          terminal_closure |->
              generate_terminal_closure(rng_value, outcome.terminal_depth_y,
                                        Corridor, outcome.is_loss),
          black_hole |-> IF outcome.black_hole_triggered
                         THEN generate_black_hole_position(
                                  rng_value, outcome.terminal_depth_y, Corridor)
                         ELSE NoBlackHole],
     status |-> "active"]

\* the record play stores for a round; of the plan it keeps the corridor, the
\* closure and the black hole (the guide rows, which no handler reads back,
\* are left out of the stored copy)
RoundRecord(sid, bet, nonce, rng_value, outcome) ==
    [session_id |-> sid,
     bet |-> bet,
     drawn_nonce |-> nonce,
     rng_value |-> rng_value,
     outcome |-> outcome,
     world_plan |->
         [corridor |-> Corridor,
          terminal_closure |->
              generate_terminal_closure(rng_value, outcome.terminal_depth_y,
                                        Corridor, outcome.is_loss),
          black_hole |-> IF outcome.black_hole_triggered
                         THEN generate_black_hole_position(
                                  rng_value, outcome.terminal_depth_y, Corridor)
                         ELSE NoBlackHole],
     status |-> "active"]

\* end_round_check without the test of the round's status
end_round_check_no_status(sid, rid) ==
    IF sid \notin DOMAIN sessions THEN "SESSION_EXPIRED"
    ELSE IF rid \notin DOMAIN rounds THEN "ROUND_NOT_FOUND"
    ELSE IF rounds[rid].session_id # sid THEN "SESSION_MISMATCH"
    ELSE "OK"

\* the checks of end_round (lines 580-592): the error code, or "OK"
end_round_check(sid, rid) ==
    IF sid \notin DOMAIN sessions THEN "SESSION_EXPIRED"
    ELSE IF rid \notin DOMAIN rounds THEN "ROUND_NOT_FOUND"
    ELSE IF rounds[rid].status # "active" THEN "ROUND_COMPLETED"
    ELSE IF rounds[rid].session_id # sid THEN "SESSION_MISMATCH"
    ELSE "OK"

\* MarkCompleted that deletes the round it settles
MarkCompleted_deleting(rid) == [r \in DOMAIN rounds \ {rid} |-> rounds[r]]

\* round_data['status'] = 'completed'
MarkCompleted(rid) == [rounds EXCEPT ![rid].status = "completed"]

\* every response is kept with the call it answers: handler, session, argument
ErrorResponse(op, code, sid, arg) ==
    [op |-> op, code |-> code, session |-> sid, arg |-> arg]

----------------------------------------------------------------------------
(* app.py: the handlers, one request at a time *)

authenticate(token) ==
    /\ token \notin DOMAIN sessions
    /\ sessions' = sessions @@ (token :> NewSession(token, START_BALANCE, 0))
    /\ resp' = [op |-> "authenticate", code |-> "OK", session |-> token,
                arg |-> 0, balance |-> START_BALANCE,
                min_bet |-> MIN_BET, max_bet |-> MAX_BET, step_bet |-> STEP_BET,
                client_seed |-> generate_client_seed(token)]
    /\ UNCHANGED <<rounds, hmacTable, credited>>

\* play that advances the nonce before it validates the call
play_nonce_first(sid, bet) ==
    LET code == play_check(sid, bet) IN
    IF code # "OK"
    THEN /\ resp' = ErrorResponse("play", code, sid, bet)
         /\ sessions' = IF sid \in DOMAIN sessions
                         THEN [sessions EXCEPT ![sid].nonce = @ + 1]
                         ELSE sessions
         /\ UNCHANGED <<rounds, hmacTable, credited>>
    ELSE /\ Cardinality(DOMAIN rounds) < MaxRounds
         /\ LET debited == [sessions[sid] EXCEPT
                               !.balance = Debit(@, bet), !.nonce = @ + 1]
                message == RngMessage(debited)
            IN \E h \in DigestsOf(message) :
               \E rng_value \in {DigestFraction(h)} :
               \E outcome \in {calculate_outcome(rng_value, bet)} :
                     /\ sessions' = [sessions EXCEPT ![sid] = debited]
                     /\ hmacTable' = IF message \in DOMAIN hmacTable
                                     THEN hmacTable
                                     ELSE hmacTable @@ (message :> h)
                     /\ rounds' = rounds @@
                            (NewRoundId :> RoundRecord(sid, bet, debited.nonce,
                                                       rng_value, outcome))
                     /\ resp' = [op |-> "play", code |-> "OK", session |-> sid,
                                 arg |-> bet, round_id |-> NewRoundId,
                                 balance |-> debited.balance,
                                 max_payout_at_ground |-> outcome.payout]
                     /\ UNCHANGED credited

play(sid, bet) ==
    LET code == play_check(sid, bet) IN
    IF code # "OK"
    THEN /\ resp' = ErrorResponse("play", code, sid, bet)
         /\ UNCHANGED <<sessions, rounds, hmacTable, credited>>
    ELSE /\ Cardinality(DOMAIN rounds) < MaxRounds
         /\ LET debited == [sessions[sid] EXCEPT
                               !.balance = Debit(@, bet), !.nonce = @ + 1]
                message == RngMessage(debited)
            IN \E h \in DigestsOf(message) :
               \E rng_value \in {DigestFraction(h)} :
               \E outcome \in {calculate_outcome(rng_value, bet)} :
                     /\ sessions' = [sessions EXCEPT ![sid] = debited]
                     /\ hmacTable' = IF message \in DOMAIN hmacTable
                                     THEN hmacTable
                                     ELSE hmacTable @@ (message :> h)
                     /\ rounds' = rounds @@
                            (NewRoundId :> RoundRecord(sid, bet, debited.nonce,
                                                       rng_value, outcome))
                     /\ resp' = [op |-> "play", code |-> "OK", session |-> sid,
                                 arg |-> bet, round_id |-> NewRoundId,
                                 balance |-> debited.balance,
                                 max_payout_at_ground |-> outcome.payout]
                     /\ UNCHANGED credited

\* end_round that settles a round for a session that does not own it
end_round_lenient(sid, rid) ==
    LET checked == end_round_check(sid, rid)
        code == IF checked = "SESSION_MISMATCH" THEN "OK" ELSE checked
    IN
    IF code # "OK"
    THEN /\ resp' = ErrorResponse("endround", code, sid, rid)
         /\ UNCHANGED <<sessions, rounds, hmacTable, credited>>
    ELSE LET payout == rounds[rid].outcome.payout
             balance == Credit(sessions[sid].balance, payout)
         IN /\ rounds' = MarkCompleted(rid)
            /\ sessions' = [sessions EXCEPT ![sid].balance = balance]
            /\ credited' = [credited EXCEPT ![rid] = @ + 1]
            /\ resp' = [op |-> "endround", code |-> "OK", session |-> sid,
                        arg |-> rid, payout |-> payout,
                        balance |-> balance, status |-> "completed"]
            /\ UNCHANGED hmacTable

end_round(sid, rid) ==
    LET code == end_round_check(sid, rid) IN
    IF code # "OK"
    THEN /\ resp' = ErrorResponse("endround", code, sid, rid)
         /\ UNCHANGED <<sessions, rounds, hmacTable, credited>>
    ELSE LET payout == rounds[rid].outcome.payout
             balance == Credit(sessions[sid].balance, payout)
         IN /\ rounds' = MarkCompleted(rid)
            /\ sessions' = [sessions EXCEPT ![sid].balance = balance]
            /\ credited' = [credited EXCEPT ![rid] = @ + 1]
            /\ resp' = [op |-> "endround", code |-> "OK", session |-> sid,
                        arg |-> rid, payout |-> payout,
                        balance |-> balance, status |-> "completed"]
            /\ UNCHANGED hmacTable

Authenticate ==
    /\ program = "app"
    /\ \E token \in Tokens : authenticate(token)
    /\ UNCHANGED <<program, sha, prior, thr, calc, smSessions, smResp, smAudit, rng>>

Play ==
    /\ program = "app"
    /\ \E sid \in Tokens \cup {UnknownToken}, bet \in BetInputs : play(sid, bet)
    /\ UNCHANGED <<program, sha, prior, thr, calc, smSessions, smResp, smAudit, rng>>

EndRound ==
    /\ program = "app"
    /\ \E sid \in Tokens \cup {UnknownToken}, rid \in RoundIds : end_round(sid, rid)
    /\ UNCHANGED <<program, sha, prior, thr, calc, smSessions, smResp, smAudit, rng>>

----------------------------------------------------------------------------
(* config.py: GameConfig *)

CONFIG_MIN_BET == Frac(10, 100)
CONFIG_MAX_BET == Whole(100)
CONFIG_MAX_WIN_MULTIPLIER == 10000
NONCE_START == 1000000

\* (multiplier, probability_weight)
MULTIPLIER_WEIGHTS ==
    << <<Whole(0), Whole(45)>>,
       <<Frac(8, 10), Whole(22)>>,
       <<Frac(13, 10), Whole(16)>>,
       <<Whole(2), Whole(10)>>,
       <<Whole(3), Whole(4)>>,
       <<Whole(5), Frac(18, 10)>>,
       <<Whole(8), Frac(8, 10)>>,
       <<Whole(15), Frac(3, 10)>>,
       <<Whole(30), Frac(8, 100)>>,
       <<Whole(75), Frac(15, 1000)>>,
       <<Whole(200), Frac(5, 1000)>> >>

BLACK_HOLE_WEIGHTS ==
    << <<Frac(3, 2), Whole(40)>>,
       <<Whole(2), Whole(30)>>,
       <<Whole(3), Whole(15)>>,
       <<Whole(5), Whole(10)>>,
       <<Whole(7), Whole(4)>>,
       <<Whole(10), Whole(1)>> >>

BLACK_HOLE_TRIGGER_PROBABILITY == Frac(10, 100)

\* COLLECTIBLES, in the order of the dictionary
CollectibleTypes == <<"coin_small", "coin_medium", "coin_large", "power_up">>

InCollectibles(type) == \E i \in DOMAIN CollectibleTypes : CollectibleTypes[i] = type

value_multiplier(type) ==
    CASE type = "coin_small" -> Frac(5, 100)
      [] type = "coin_medium" -> Frac(10, 100)
      [] type = "coin_large" -> Frac(25, 100)
      [] type = "power_up" -> Frac(50, 100)

max_per_round(type) ==
    CASE type = "coin_small" -> 5
      [] type = "coin_medium" -> 3
      [] type = "coin_large" -> 2
      [] type = "power_up" -> 1

\* an amount float() fails on, as a fraction with no denominator
NotANumber == <<0, 0>>

validate_bet(amount) ==
    IF amount = NotANumber
    THEN FALSE
    ELSE RLe(CONFIG_MIN_BET, amount) /\ RLe(amount, CONFIG_MAX_BET)

clamp_payout(payout, bet_amount) ==
    RMin(payout, RMul(bet_amount, Whole(CONFIG_MAX_WIN_MULTIPLIER)))

RECURSIVE SumWeights(_, _)
SumWeights(table, i) ==
    IF i = 0 THEN Whole(0) ELSE RAdd(SumWeights(table, i - 1), table[i][2])

get_total_multiplier_weight == SumWeights(MULTIPLIER_WEIGHTS, Len(MULTIPLIER_WEIGHTS))
get_total_black_hole_weight == SumWeights(BLACK_HOLE_WEIGHTS, Len(BLACK_HOLE_WEIGHTS))

----------------------------------------------------------------------------
(* game_math.py: MultiplierEngine and PayoutEngine *)

\* the loop of select_multiplier from entry i on, with the running sum
RECURSIVE SelectFrom(_, _, _, _)
SelectFrom(table, threshold, i, cumulative) ==
    IF i > Len(table)
    THEN table[Len(table)][1]
    ELSE LET sum == RAdd(cumulative, table[i][2])
         IN IF RLe(threshold, sum)
            THEN table[i][1]
            ELSE SelectFrom(table, threshold, i + 1, sum)

\* select_multiplier that compares the draw itself with the cumulative weight
select_multiplier_unscaled(random_value) ==
    SelectFrom(MULTIPLIER_WEIGHTS, random_value, 1, Whole(0))

select_multiplier(random_value) ==
    SelectFrom(MULTIPLIER_WEIGHTS,
               RMul(random_value, get_total_multiplier_weight), 1, Whole(0))

select_black_hole_multiplier(random_value) ==
    SelectFrom(BLACK_HOLE_WEIGHTS,
               RMul(random_value, get_total_black_hole_weight), 1, Whole(0))

\* stake-math-sdk game_config.py: the primary table of the SDK game
SDK_MULTIPLIER_WEIGHTS ==
    << <<Whole(0), Whole(70)>>,
       <<Frac(8, 10), Whole(20)>>,
       <<Frac(13, 10), Frac(96, 10)>>,
       <<Whole(2), Whole(5)>>,
       <<Whole(3), Whole(2)>>,
       <<Whole(5), Frac(8, 10)>>,
       <<Whole(8), Frac(2, 10)>>,
       <<Whole(15), Frac(1, 10)>>,
       <<Whole(30), Frac(5, 100)>>,
       <<Whole(75), Frac(1, 100)>>,
       <<Whole(200), Frac(5, 1000)>> >>

\* GameState.select_multiplier of the SDK game
gamestate_select_multiplier(random_value) ==
    SelectFrom(SDK_MULTIPLIER_WEIGHTS,
               RMul(random_value,
                    SumWeights(SDK_MULTIPLIER_WEIGHTS, Len(SDK_MULTIPLIER_WEIGHTS))),
               1, Whole(0))

calculate_base_payout(bet_amount, multiplier) == RMul(bet_amount, multiplier)

\* the loop of apply_collectibles over the first i items
RECURSIVE BonusOf(_, _)
BonusOf(collectibles, i) ==
    IF i = 0
    THEN Whole(0)
    ELSE IF InCollectibles(collectibles[i])
         THEN RAdd(BonusOf(collectibles, i - 1), value_multiplier(collectibles[i]))
         ELSE BonusOf(collectibles, i - 1)

\* apply_collectibles that scales the bonus by the base payout
apply_collectibles_on_payout(base_payout, bet_amount, collectibles) ==
    LET bonus_multiplier == BonusOf(collectibles, Len(collectibles))
        collectible_value == RMul(base_payout, bonus_multiplier)
    IN <<RAdd(base_payout, collectible_value), bonus_multiplier>>

\* <<new_payout, collectible_bonus_multiplier>>
apply_collectibles(base_payout, bet_amount, collectibles) ==
    LET bonus_multiplier == BonusOf(collectibles, Len(collectibles))
        collectible_value == RMul(bet_amount, bonus_multiplier)
    IN <<RAdd(base_payout, collectible_value), bonus_multiplier>>

apply_black_hole_bonus(payout, black_hole_multiplier) ==
    RMul(payout, black_hole_multiplier)

calculate_final_payout(bet_amount, base_multiplier, collectibles, black_hole_multiplier) ==
    LET base_payout == calculate_base_payout(bet_amount, base_multiplier)
        with_collectibles == apply_collectibles(base_payout, bet_amount, collectibles)
        boosted == apply_black_hole_bonus(with_collectibles[1], black_hole_multiplier)
        final_payout == clamp_payout(boosted, bet_amount)
    IN [base_payout |-> base_payout,
        base_multiplier |-> base_multiplier,
        collectible_bonus |-> with_collectibles[2],
        black_hole_multiplier |-> black_hole_multiplier,
        final_payout |-> final_payout,
        final_multiplier |-> IF RLt(Whole(0), bet_amount)
                             THEN RDiv(final_payout, bet_amount)
                             ELSE Whole(0)]

----------------------------------------------------------------------------
(* game_math.py: RTPCalculator, and stake_sdk_adapter.py *)

TARGET_RTP == Frac(96, 100)
RTP_TOLERANCE == Frac(2, 100)

spawn_probability(type) ==
    CASE type = "coin_small" -> Frac(15, 100)
      [] type = "coin_medium" -> Frac(8, 100)
      [] type = "coin_large" -> Frac(3, 100)
      [] type = "power_up" -> Frac(1, 100)

\* calculate_theoretical_rtp that adds multiplier * weight, not normalised
calculate_theoretical_rtp_unnormalised ==
    SumWeights([i \in DOMAIN MULTIPLIER_WEIGHTS |->
                   <<MULTIPLIER_WEIGHTS[i][1],
                     RMul(MULTIPLIER_WEIGHTS[i][1], MULTIPLIER_WEIGHTS[i][2])>>],
               Len(MULTIPLIER_WEIGHTS))

\* expected_value += multiplier * (weight / total_weight), over the table
calculate_theoretical_rtp ==
    SumWeights([i \in DOMAIN MULTIPLIER_WEIGHTS |->
                   <<MULTIPLIER_WEIGHTS[i][1],
                     RMul(MULTIPLIER_WEIGHTS[i][1],
                          RDiv(MULTIPLIER_WEIGHTS[i][2],
                               get_total_multiplier_weight))>>],
               Len(MULTIPLIER_WEIGHTS))

\* the adapter's outcomes, one per entry of the table
get_discrete_outcomes ==
    [i \in DOMAIN MULTIPLIER_WEIGHTS |->
        LET probability == RDiv(MULTIPLIER_WEIGHTS[i][2], get_total_multiplier_weight)
        IN [multiplier |-> MULTIPLIER_WEIGHTS[i][1],
            probability |-> probability,
            weight |-> MULTIPLIER_WEIGHTS[i][2],
            rtp_contribution |-> RMul(MULTIPLIER_WEIGHTS[i][1], probability)]]

calculate_theoretical_rtp_sdk_method ==
    LET outcomes == get_discrete_outcomes
    IN [theoretical_rtp |->
            SumWeights([i \in DOMAIN outcomes |->
                           <<i, outcomes[i].rtp_contribution>>], Len(outcomes)),
        total_probability |->
            SumWeights([i \in DOMAIN outcomes |->
                           <<i, outcomes[i].probability>>], Len(outcomes)),
        num_outcomes |-> Len(outcomes),
        outcomes |-> outcomes,
        target_rtp |-> RMul(TARGET_RTP, Whole(100))]

----------------------------------------------------------------------------
(* The pure functions, evaluated on their inputs: once per behaviour *)

\* bets of app.py that pass its validation
AppBets == {b \in BetInputs \cup {MIN_BET} : MIN_BET <= b /\ b <= MAX_BET}

\* bets of game_math.py: nothing, the minimum, one, the maximum
MathBets == {Whole(0), CONFIG_MIN_BET, Whole(1), CONFIG_MAX_BET}

TableValues(table) == {table[i][1] : i \in DOMAIN table}

\* base multipliers: those of the table, and one beyond any table
BaseMultipliers == TableValues(MULTIPLIER_WEIGHTS) \cup {Whole(20000)}

\* bonus multipliers: none (1.0), and those of the table
BonusMultipliers == {Whole(1)} \cup TableValues(BLACK_HOLE_WEIGHTS)

\* item types a caller may pass: the configured ones and an unknown one
ItemInputs == {CollectibleTypes[i] : i \in DOMAIN CollectibleTypes} \cup {"mystery"}

ItemLists == UNION {[1..n -> ItemInputs] : n \in 0..MaxItems}

EvalOutcome ==
    /\ program = "functions"
    /\ calc.op = "none"
    /\ \E h \in 0..(DigestRange - 1), bet \in AppBets :
          calc' = [op |-> "calculate_outcome",
                   rng_value |-> DigestFraction(h),
                   bet |-> bet,
                   result |-> calculate_outcome(DigestFraction(h), bet)]
    /\ UNCHANGED <<program, sessions, rounds, hmacTable, sha, prior, credited,
                   resp, thr, smSessions, smResp, smAudit, rng>>

\* the weighted tables, by name
WeightedTables == {"primary", "black_hole", "sdk_primary"}

TableOf(name) ==
    CASE name = "primary" -> MULTIPLIER_WEIGHTS
      [] name = "black_hole" -> BLACK_HOLE_WEIGHTS
      [] name = "sdk_primary" -> SDK_MULTIPLIER_WEIGHTS

SelectorOf(name, random_value) ==
    CASE name = "primary" -> select_multiplier(random_value)
      [] name = "black_hole" -> select_black_hole_multiplier(random_value)
      [] name = "sdk_primary" -> gamestate_select_multiplier(random_value)

\* draw values handed to a selector: every value generate_random returns,
\* and one beyond 1
DrawValues == {Frac(h, DigestRange - 1) : h \in 0..(DigestRange - 1)} \cup {Whole(2)}

EvalSelect ==
    /\ program = "functions"
    /\ calc.op = "none"
    /\ sha = ZeroTable
    /\ \E name \in WeightedTables, r \in DrawValues :
          calc' = [op |-> "select",
                   table |-> name,
                   random_value |-> r,
                   result |-> SelectorOf(name, r)]
    /\ UNCHANGED <<program, sessions, rounds, hmacTable, sha, prior, credited,
                   resp, thr, smSessions, smResp, smAudit, rng>>

\* game_math.py takes no sub-draw: it is evaluated under one table
EvalFinalPayout ==
    /\ program = "functions"
    /\ calc.op = "none"
    /\ sha = ZeroTable
    /\ \E bet \in MathBets, base \in BaseMultipliers, items \in ItemLists,
          bh \in BonusMultipliers :
          calc' = [op |-> "calculate_final_payout",
                   bet_amount |-> bet,
                   base_multiplier |-> base,
                   collectibles |-> items,
                   black_hole_multiplier |-> bh,
                   result |-> calculate_final_payout(bet, base, items, bh)]
    /\ UNCHANGED <<program, sessions, rounds, hmacTable, sha, prior, credited,
                   resp, thr, smSessions, smResp, smAudit, rng>>

\* the plan play builds for a round, and the timeline it returns with it:
\* generate_world_plan on the base value and on the outcome calculate_outcome
\* gave for it, then build_visual_timeline
EvalWorldPlan ==
    /\ program = "functions"
    /\ calc.op = "none"
    /\ \E h \in 0..(DigestRange - 1) :
       \E rng_value \in {DigestFraction(h)} :
       \E outcome \in {calculate_outcome(rng_value, MIN_BET)} :
       \E world_plan \in {generate_world_plan(rng_value, outcome)} :
          calc' = [op |-> "generate_world_plan",
                   rng_value |-> rng_value,
                   outcome |-> outcome,
                   result |-> world_plan,
                   visual_timeline |-> build_visual_timeline(outcome, world_plan)]
    /\ UNCHANGED <<program, sessions, rounds, hmacTable, sha, prior, credited,
                   resp, thr, smSessions, smResp, smAudit, rng>>

\* compare_with_custom_math: the return of the primary table, computed by
\* RTPCalculator and by the SDK adapter
EvalRtp ==
    /\ program = "functions"
    /\ calc.op = "none"
    /\ sha = ZeroTable
    /\ calc' = [op |-> "compare_with_custom_math",
                custom_rtp |-> calculate_theoretical_rtp,
                sdk |-> calculate_theoretical_rtp_sdk_method]
    /\ UNCHANGED <<program, sessions, rounds, hmacTable, sha, prior, credited,
                   resp, thr, smSessions, smResp, smAudit, rng>>

----------------------------------------------------------------------------
(* game_math.py: GameMath, and event_generator.py: SessionManager *)

Users == {"u1"}
\* a user no session was created for
UnknownUser == "u0"

\* no client seed given
\* seeds and their absence are tagged tuples, so that any two compare
None == <<"None">>
ClientSeedInputs == {None, <<"client_seed", "c1">>}

\* bets a caller of play_round sends
SmBetInputs == {Frac(5, 100), CONFIG_MIN_BET, CONFIG_MAX_BET,
                Frac(10001, 100), NotANumber}

\* leading digest values generate_random may see
SmDigests == {DigestRange \div 20, DigestRange \div 2, DigestRange - 1}

\* int(hash_result[:8], 16) / 0xFFFFFFFF, at the model's resolution
RandomOf(h) == Frac(h, DigestRange - 1)

\* generate_random calls of _generate_spawn_data
SPAWN_DRAWS == 300 * 3 + 50 * 2 + 200 * 3 + 40 * 2 + 20 * 2

\* generate_random calls of _generate_collectibles: one per possible item
COLLECTIBLE_DRAWS ==
    max_per_round("coin_small") + max_per_round("coin_medium")
        + max_per_round("coin_large") + max_per_round("power_up")

\* generate_random calls of one generate_round_result
DrawsPerRound(black_hole_triggered) ==
    2 + (IF black_hole_triggered THEN 1 ELSE 0) + COLLECTIBLE_DRAWS + SPAWN_DRAWS

Repeat(type, n) == [i \in 1..n |-> type]

\* the list _generate_collectibles builds when c[i] draws of type i succeed
ItemsOf(c) ==
    Repeat(CollectibleTypes[1], c[1]) \o Repeat(CollectibleTypes[2], c[2])
        \o Repeat(CollectibleTypes[3], c[3]) \o Repeat(CollectibleTypes[4], c[4])

\* numbers of successful spawn draws per type the model lets a round have
SpawnCounts == {<<0, 0, 0, 0>>, <<2, 1, 0, 1>>, <<5, 3, 2, 1>>}

get_server_seed_hash(server_seed) == <<"sha256", server_seed>>

\* ProvablyFairRNG._generate_server_seed: the k-th value the system's random
\* source gives, unlike every other
_generate_server_seed(k) == <<"server_seed", k>>

\* the result of generate_round_result when the RNG's nonce is `nonce`, the
\* digests drawn for the base, the trigger and the bonus are h1, h2, h3 and
\* the collectible draws give `collectibles`
generate_round_result(nonce, server_seed, bet_amount, h1, h2, h3, collectibles) ==
    LET base_multiplier == select_multiplier(RandomOf(h1))
        black_hole_triggered == RLt(RandomOf(h2), BLACK_HOLE_TRIGGER_PROBABILITY)
        black_hole_multiplier ==
            IF black_hole_triggered
            THEN select_black_hole_multiplier(RandomOf(h3))
            ELSE Whole(1)
        final_nonce == nonce + DrawsPerRound(black_hole_triggered)
        payout_data == calculate_final_payout(bet_amount, base_multiplier,
                                              collectibles, black_hole_multiplier)
    IN [bet_amount |-> bet_amount,
        nonce |-> final_nonce - (IF black_hole_triggered THEN 3 ELSE 1),
        base_draw_nonce |-> nonce,
        rng_nonce |-> final_nonce,
        base_multiplier |-> base_multiplier,
        collectibles |-> collectibles,
        black_hole_triggered |-> black_hole_triggered,
        black_hole_multiplier |-> black_hole_multiplier,
        base_payout |-> payout_data.base_payout,
        collectible_bonus |-> payout_data.collectible_bonus,
        final_payout |-> payout_data.final_payout,
        final_multiplier |-> payout_data.final_multiplier,
        server_seed_hash |-> get_server_seed_hash(server_seed)]

\* the round_start event: the payout ratio mapped to a depth (timestamps
\* and spawn positions are left out of the events)
_create_round_start_event(result) ==
    LET WORLD_START_Y == 0
        WORLD_GROUND_Y == 18500
        MAX_DESCENT == WORLD_GROUND_Y - 1000
        max_multiplier == Whole(10)
        ratio == IF RLt(Whole(0), result.bet_amount)
                 THEN RDiv(result.final_payout, result.bet_amount)
                 ELSE Whole(0)
        payout_ratio == RDiv(RMin(ratio, max_multiplier), max_multiplier)
    IN [type |-> "round_start",
        bet_amount |-> result.bet_amount,
        nonce |-> result.nonce,
        server_seed_hash |-> result.server_seed_hash,
        terminal_depth_y |->
            Trunc(RAdd(Whole(WORLD_START_Y), RMul(payout_ratio, Whole(MAX_DESCENT)))),
        max_payout_at_ground |-> RMul(result.bet_amount, max_multiplier),
        black_hole_triggered |-> result.black_hole_triggered,
        black_hole_multiplier |-> result.black_hole_multiplier]

\* generate_round_events that reports the black hole before the collectibles
generate_round_events_bonus_first(result) ==
    LET collectible_events ==
            [i \in 1..Len(result.collectibles) |->
                [type |-> "collectible",
                 collectible_type |-> result.collectibles[i],
                 value_multiplier |-> value_multiplier(result.collectibles[i]),
                 value |-> RMul(result.bet_amount,
                                value_multiplier(result.collectibles[i])),
                 index |-> i - 1]]
        black_hole_events ==
            << [type |-> "bonus_enter", bonus_type |-> "black_hole",
                multiplier |-> result.black_hole_multiplier],
               [type |-> "bonus_exit", bonus_type |-> "black_hole",
                final_multiplier |-> result.black_hole_multiplier] >>
        win_event ==
            [type |-> "win",
             base_multiplier |-> result.base_multiplier,
             collectible_bonus |-> result.collectible_bonus,
             black_hole_multiplier |-> result.black_hole_multiplier,
             final_multiplier |-> result.final_multiplier,
             payout |-> result.final_payout,
             base_payout |-> result.base_payout]
        round_end_event ==
            [type |-> "round_end",
             final_payout |-> result.final_payout,
             final_multiplier |-> result.final_multiplier,
             nonce |-> result.nonce]
    IN << _create_round_start_event(result) >>
       \o (IF result.black_hole_triggered THEN black_hole_events ELSE <<>>)
       \o (IF result.collectibles # <<>> THEN collectible_events ELSE <<>>)
       \o << win_event, round_end_event >>

\* the event list generate_round_events builds from the round result
generate_round_events(result) ==
    LET collectible_events ==
            [i \in 1..Len(result.collectibles) |->
                [type |-> "collectible",
                 collectible_type |-> result.collectibles[i],
                 value_multiplier |-> value_multiplier(result.collectibles[i]),
                 value |-> RMul(result.bet_amount,
                                value_multiplier(result.collectibles[i])),
                 index |-> i - 1]]
        black_hole_events ==
            << [type |-> "bonus_enter", bonus_type |-> "black_hole",
                multiplier |-> result.black_hole_multiplier],
               [type |-> "bonus_exit", bonus_type |-> "black_hole",
                final_multiplier |-> result.black_hole_multiplier] >>
        win_event ==
            [type |-> "win",
             base_multiplier |-> result.base_multiplier,
             collectible_bonus |-> result.collectible_bonus,
             black_hole_multiplier |-> result.black_hole_multiplier,
             final_multiplier |-> result.final_multiplier,
             payout |-> result.final_payout,
             base_payout |-> result.base_payout]
        round_end_event ==
            [type |-> "round_end",
             final_payout |-> result.final_payout,
             final_multiplier |-> result.final_multiplier,
             nonce |-> result.nonce]
    IN << _create_round_start_event(result) >>
       \o (IF result.collectibles # <<>> THEN collectible_events ELSE <<>>)
       \o (IF result.black_hole_triggered THEN black_hole_events ELSE <<>>)
       \o << win_event, round_end_event >>

\* create_session that answers with the seed where its hash belongs
create_session_plain_seed(user_id, client_seed) ==
    LET cs == IF client_seed = None THEN generate_client_seed(user_id) ELSE client_seed
        ss == _generate_server_seed(smAudit.issued + 1)
    IN /\ smAudit.issued < MaxSeeds
       /\ smAudit' = [smAudit EXCEPT !.issued = @ + 1]
       /\ smSessions' = [u \in DOMAIN smSessions \cup {user_id} |->
                            IF u = user_id
                            THEN [round_count |-> 0, nonce |-> NONCE_START,
                                  server_seed |-> ss, client_seed |-> cs]
                            ELSE smSessions[u]]
       /\ smResp' = [op |-> "create_session", code |-> "OK", user |-> user_id,
                     server_seed_hash |-> ss,
                     client_seed |-> cs, nonce |-> NONCE_START]

create_session(user_id, client_seed) ==
    LET cs == IF client_seed = None THEN generate_client_seed(user_id) ELSE client_seed
        ss == _generate_server_seed(smAudit.issued + 1)
    IN /\ smAudit.issued < MaxSeeds
       /\ smAudit' = [smAudit EXCEPT !.issued = @ + 1]
       /\ smSessions' = [u \in DOMAIN smSessions \cup {user_id} |->
                            IF u = user_id
                            THEN [round_count |-> 0, nonce |-> NONCE_START,
                                  server_seed |-> ss, client_seed |-> cs]
                            ELSE smSessions[u]]
       /\ smResp' = [op |-> "create_session", code |-> "OK", user |-> user_id,
                     server_seed_hash |-> get_server_seed_hash(ss),
                     client_seed |-> cs, nonce |-> NONCE_START]

play_round(user_id, bet_amount) ==
    IF user_id \notin DOMAIN smSessions
    THEN /\ smResp' = [op |-> "play_round", code |-> "NO_SESSION",
                       user |-> user_id, arg |-> bet_amount]
         /\ UNCHANGED smSessions
    ELSE IF ~validate_bet(bet_amount)
    THEN /\ smResp' = [op |-> "play_round", code |-> "INVALID_BET",
                       user |-> user_id, arg |-> bet_amount]
         /\ UNCHANGED smSessions
    ELSE /\ smSessions[user_id].round_count < MaxSmRounds
         /\ \E h1 \in SmDigests, h2 \in SmDigests, c \in SpawnCounts :
            \E h3 \in (IF RLt(RandomOf(h2), BLACK_HOLE_TRIGGER_PROBABILITY)
                       THEN SmDigests ELSE {0}) :
               LET session == smSessions[user_id]
               IN \E result \in {generate_round_result(session.nonce,
                                      session.server_seed, bet_amount,
                                      h1, h2, h3, ItemsOf(c))} :
                  /\ smSessions' = [smSessions EXCEPT
                                       ![user_id].nonce = result.rng_nonce,
                                       ![user_id].round_count = @ + 1]
                  /\ smResp' = [op |-> "play_round", code |-> "OK", user |-> user_id,
                                result |-> result,
                                events |-> generate_round_events(result),
                                round_number |-> session.round_count + 1,
                                verification |->
                                    [server_seed_hash |-> result.server_seed_hash,
                                     client_seed |-> session.client_seed,
                                     current_nonce |-> result.rng_nonce]]

\* end_session that reads the session and leaves it in place
end_session_keeps(user_id) ==
    IF user_id \notin DOMAIN smSessions
    THEN /\ smResp' = [op |-> "end_session", code |-> "NO_SESSION",
                       user |-> user_id, arg |-> None]
         /\ UNCHANGED <<smSessions, smAudit>>
    ELSE /\ UNCHANGED smSessions
         /\ smAudit' = [smAudit EXCEPT
                           !.revealed = @ \cup {smSessions[user_id].server_seed}]
         /\ smResp' = [op |-> "end_session", code |-> "OK", user |-> user_id,
                       total_rounds |-> smSessions[user_id].round_count,
                       server_seed |-> smSessions[user_id].server_seed,
                       client_seed |-> smSessions[user_id].client_seed,
                       final_nonce |-> smSessions[user_id].nonce]

end_session(user_id) ==
    IF user_id \notin DOMAIN smSessions
    THEN /\ smResp' = [op |-> "end_session", code |-> "NO_SESSION",
                       user |-> user_id, arg |-> None]
         /\ UNCHANGED <<smSessions, smAudit>>
    ELSE /\ smSessions' = [u \in DOMAIN smSessions \ {user_id} |-> smSessions[u]]
         /\ smAudit' = [smAudit EXCEPT
                           !.revealed = @ \cup {smSessions[user_id].server_seed}]
         /\ smResp' = [op |-> "end_session", code |-> "OK", user |-> user_id,
                       total_rounds |-> smSessions[user_id].round_count,
                       server_seed |-> smSessions[user_id].server_seed,
                       client_seed |-> smSessions[user_id].client_seed,
                       final_nonce |-> smSessions[user_id].nonce]

CreateSession ==
    /\ program = "event_generator"
    /\ \E u \in Users, cs \in ClientSeedInputs : create_session(u, cs)
    /\ UNCHANGED <<program, sessions, rounds, hmacTable, sha, prior, credited,
                   resp, thr, calc, rng>>

PlayRound ==
    /\ program = "event_generator"
    /\ \E u \in Users \cup {UnknownUser}, bet \in SmBetInputs : play_round(u, bet)
    /\ UNCHANGED <<program, sessions, rounds, hmacTable, sha, prior, credited,
                   resp, thr, calc, rng, smAudit>>

EndSession ==
    /\ program = "event_generator"
    /\ \E u \in Users \cup {UnknownUser} : end_session(u)
    /\ UNCHANGED <<program, sessions, rounds, hmacTable, sha, prior, credited,
                   resp, thr, calc, rng>>

----------------------------------------------------------------------------
(* game_math.py: a ProvablyFairRNG object, driven as validate_provably_fair *)
(* of math_validator.py drives it                                          *)

TEST_SERVER_SEED == <<"server_seed", "test_server_seed_12345">>
TEST_CLIENT_SEED == <<"client_seed", "test_client_seed">>
OTHER_SERVER_SEED == <<"server_seed", "other">>

\* leading digest values the keyed hash may have: the least, one in the
\* middle, the greatest
RngDigests == {0, DigestRange \div 2, DigestRange - 1}

\* ProvablyFairRNG(server_seed, client_seed); `returned` is the list of
\* (nonce, value) the validator keeps
NewRng(server_seed, client_seed) ==
    [server_seed |-> server_seed,
     client_seed |-> client_seed,
     nonce |-> NONCE_START,
     returned |-> <<>>]

\* what generate_random and verify_result hash: the key, and the message
\* f"{client_seed}:{nonce}"
HmacInput(server_seed, client_seed, nonce) == <<server_seed, <<client_seed, nonce>> >>

\* the digests the keyed hash may return for an input: the one it returned
\* before, or any
HmacDigests(input) ==
    IF input \in DOMAIN hmacTable THEN {hmacTable[input]} ELSE RngDigests

Remember(input, h) ==
    IF input \in DOMAIN hmacTable THEN hmacTable ELSE hmacTable @@ (input :> h)

RAbs(x) == <<Abs(x[1]), x[2]>>

\* 0.0001 in verify_result is 429496 steps of a 32-bit digest; at the model's
\* resolution the tolerance is kept wider than one step of the digest
VERIFY_TOLERANCE == Frac(2, DigestRange)

\* the comparison of verify_result
WithinTolerance(value, expected_value) ==
    RLt(RAbs(RSub(value, expected_value)), VERIFY_TOLERANCE)

generate_random ==
    LET input == HmacInput(rng.server_seed, rng.client_seed, rng.nonce) IN
    \E h \in HmacDigests(input) :
       LET value == RandomOf(h) IN
       /\ hmacTable' = Remember(input, h)
       /\ rng' = [rng EXCEPT !.nonce = @ + 1,
                             !.returned = Append(@, [nonce |-> rng.nonce,
                                                     value |-> value])]
       /\ calc' = [op |-> "generate_random", nonce |-> rng.nonce, digest |-> h,
                   value |-> value]

\* verify_result that hashes the nonce after the one it was given
verify_result_next_nonce(server_seed, client_seed, nonce, expected_value) ==
    LET input == HmacInput(server_seed, client_seed, nonce + 1) IN
    \E h \in HmacDigests(input) :
       /\ hmacTable' = Remember(input, h)
       /\ calc' = [op |-> "verify_result", server_seed |-> server_seed,
                   client_seed |-> client_seed, nonce |-> nonce,
                   expected_value |-> expected_value,
                   result |-> WithinTolerance(RandomOf(h), expected_value)]
       /\ UNCHANGED rng

verify_result(server_seed, client_seed, nonce, expected_value) ==
    LET input == HmacInput(server_seed, client_seed, nonce) IN
    \E h \in HmacDigests(input) :
       /\ hmacTable' = Remember(input, h)
       /\ calc' = [op |-> "verify_result", server_seed |-> server_seed,
                   client_seed |-> client_seed, nonce |-> nonce,
                   expected_value |-> expected_value,
                   result |-> WithinTolerance(RandomOf(h), expected_value)]
       /\ UNCHANGED rng

\* what a caller asks verify_result about: the object's seeds at every nonce
\* it may have used and one more, and another server seed at the first nonce
VerifyInputs ==
    {<<TEST_SERVER_SEED, n>> : n \in NONCE_START..(NONCE_START + MaxDraws)}
        \cup {<<OTHER_SERVER_SEED, NONCE_START>>}

GenerateRandom ==
    /\ program = "game_math"
    /\ Len(rng.returned) < MaxDraws
    /\ generate_random
    /\ UNCHANGED <<program, sessions, rounds, sha, prior, credited, resp, thr,
                   smSessions, smResp, smAudit>>

VerifyResult ==
    /\ program = "game_math"
    /\ \E in \in VerifyInputs, h \in RngDigests :
          verify_result(in[1], TEST_CLIENT_SEED, in[2], RandomOf(h))
    /\ UNCHANGED <<program, sessions, rounds, sha, prior, credited, resp, thr,
                   smSessions, smResp, smAudit>>

----------------------------------------------------------------------------
(* app.py serving one session, and an auditor who holds the session's seeds *)
(* and checks the base value of its rounds with verify_result               *)

AuditToken == "s1"

AuditAuthenticate ==
    /\ program = "audit"
    /\ authenticate(AuditToken)
    /\ UNCHANGED <<program, sha, prior, thr, calc, smSessions, smResp, smAudit, rng>>

AuditPlay ==
    /\ program = "audit"
    /\ play(AuditToken, MAX_BET)
    /\ UNCHANGED <<program, sha, prior, thr, calc, smSessions, smResp, smAudit, rng>>

\* verify(server_seed, client_seed, nonce, base value of the round)
VerifyRound ==
    /\ program = "audit"
    /\ \E r \in DOMAIN rounds :
          LET session == sessions[rounds[r].session_id]
          IN verify_result(session.server_seed, session.client_seed,
                           rounds[r].drawn_nonce, rounds[r].rng_value)
    /\ UNCHANGED <<program, sessions, rounds, sha, prior, credited, resp, thr,
                   smSessions, smResp, smAudit>>

----------------------------------------------------------------------------
(* The specification: one program per behaviour, one call at a time *)

Programs == {"app", "functions", "event_generator", "game_math", "audit"}

\* no ProvablyFairRNG object constructed
NoRng == [server_seed |-> <<"none">>, client_seed |-> <<"none">>,
          nonce |-> 0, returned |-> <<>>]


Init ==
    /\ program \in Programs
    /\ InitServer
    /\ sha \in (IF program = "functions" THEN ShaTables ELSE {ZeroTable})
    /\ IF program = "app" THEN TRUE ELSE prior = [t \in Tokens |-> 0]
    /\ calc = [op |-> "none"]
    /\ smSessions = <<>>
    /\ smResp = [op |-> "none", code |-> "none"]
    /\ smAudit = [issued |-> 0, revealed |-> {}]
    /\ rng = IF program = "game_math"
             THEN NewRng(TEST_SERVER_SEED, TEST_CLIENT_SEED)
             ELSE NoRng

Next ==
    \/ Authenticate
    \/ Play
    \/ EndRound
    \/ EvalOutcome
    \/ EvalFinalPayout
    \/ EvalSelect
    \/ EvalWorldPlan
    \/ EvalRtp
    \/ GenerateRandom
    \/ VerifyResult
    \/ AuditAuthenticate
    \/ AuditPlay
    \/ VerifyRound
    \/ CreateSession
    \/ PlayRound
    \/ EndSession

Spec == Init /\ [][Next]_vars

----------------------------------------------------------------------------
(* app.py under the threaded server: two request threads run the handlers  *)
(* statement by statement; `x -= v` and `x += v` on a dictionary entry are *)
(* a load followed by a store, and nothing in app.py takes a lock.         *)

\* the calls the two threads serve: those of one session, the state the
\* handlers share; a bet that passes validation and one that does not
ConcTokens == {"s1"}
ConcBets == {MAX_BET, MAX_BET + STEP_BET}

PlayPcs == {"play_load_balance", "play_store_balance", "play_load_nonce",
            "play_store_nonce", "play_derive", "play_create"}

\* plays past their checks that have not created their round yet
PlaysInFlight == Cardinality({t \in Threads : thr[t].pc \in PlayPcs})

At(t, pc) == thr[t].pc = pc

Goto(t, locals) == thr' = [thr EXCEPT ![t] = locals]

\* lines 467-478
PlayEnter(t) ==
    /\ At(t, "idle")
    /\ \E sid \in ConcTokens, bet \in ConcBets :
          LET code == play_check(sid, bet) IN
          IF code # "OK"
          THEN /\ resp' = ErrorResponse("play", code, sid, bet)
               /\ UNCHANGED <<sessions, rounds, hmacTable, credited, thr>>
          ELSE /\ Cardinality(DOMAIN rounds) + PlaysInFlight < MaxRounds
               /\ Goto(t, [pc |-> "play_load_balance", sid |-> sid, bet |-> bet])
               /\ UNCHANGED <<sessions, rounds, hmacTable, credited, resp>>

\* line 481, load
PlayLoadBalance(t) ==
    /\ At(t, "play_load_balance")
    /\ Goto(t, [pc |-> "play_store_balance", sid |-> thr[t].sid, bet |-> thr[t].bet,
                tmp |-> sessions[thr[t].sid].balance])
    /\ UNCHANGED <<sessions, rounds, hmacTable, credited, resp>>

\* line 481, store
PlayStoreBalance(t) ==
    /\ At(t, "play_store_balance")
    /\ sessions' = [sessions EXCEPT
                       ![thr[t].sid].balance = Debit(thr[t].tmp, thr[t].bet)]
    /\ Goto(t, [pc |-> "play_load_nonce", sid |-> thr[t].sid, bet |-> thr[t].bet])
    /\ UNCHANGED <<rounds, hmacTable, credited, resp>>

\* line 482, load
PlayLoadNonce(t) ==
    /\ At(t, "play_load_nonce")
    /\ Goto(t, [pc |-> "play_store_nonce", sid |-> thr[t].sid, bet |-> thr[t].bet,
                tmp |-> sessions[thr[t].sid].nonce])
    /\ UNCHANGED <<sessions, rounds, hmacTable, credited, resp>>

\* line 482, store
PlayStoreNonce(t) ==
    /\ At(t, "play_store_nonce")
    /\ sessions' = [sessions EXCEPT ![thr[t].sid].nonce = thr[t].tmp + 1]
    /\ Goto(t, [pc |-> "play_derive", sid |-> thr[t].sid, bet |-> thr[t].bet])
    /\ UNCHANGED <<rounds, hmacTable, credited, resp>>

\* lines 485-495
PlayDerive(t) ==
    /\ At(t, "play_derive")
    /\ LET session == sessions[thr[t].sid]
           message == RngMessage(session)
       IN \E h \in DigestsOf(message) :
             /\ hmacTable' = IF message \in DOMAIN hmacTable
                             THEN hmacTable
                             ELSE hmacTable @@ (message :> h)
             /\ Goto(t, [pc |-> "play_create", sid |-> thr[t].sid, bet |-> thr[t].bet,
                         nonce |-> session.nonce,
                         rng_value |-> DigestFraction(h),
                         outcome |-> calculate_outcome(DigestFraction(h), thr[t].bet)])
    /\ UNCHANGED <<sessions, rounds, credited, resp>>

\* lines 498-532
PlayCreate(t) ==
    /\ At(t, "play_create")
    /\ rounds' = rounds @@
           (NewRoundId :> RoundRecord(thr[t].sid, thr[t].bet, thr[t].nonce,
                                      thr[t].rng_value, thr[t].outcome))
    /\ resp' = [op |-> "play", code |-> "OK", session |-> thr[t].sid,
                arg |-> thr[t].bet, round_id |-> NewRoundId,
                balance |-> sessions[thr[t].sid].balance,
                max_payout_at_ground |-> thr[t].outcome.payout]
    /\ Goto(t, Idle)
    /\ UNCHANGED <<sessions, hmacTable, credited>>

\* lines 580-592
EndEnter(t) ==
    /\ At(t, "idle")
    /\ \E sid \in ConcTokens, rid \in RoundIds :
          LET code == end_round_check(sid, rid) IN
          IF code # "OK"
          THEN /\ resp' = ErrorResponse("endround", code, sid, rid)
               /\ UNCHANGED <<sessions, rounds, hmacTable, credited, thr>>
          ELSE /\ Goto(t, [pc |-> "end_mark", sid |-> sid, rid |-> rid])
               /\ UNCHANGED <<sessions, rounds, hmacTable, credited, resp>>

\* lines 595-596
EndMark(t) ==
    /\ At(t, "end_mark")
    /\ rounds' = MarkCompleted(thr[t].rid)
    /\ Goto(t, [pc |-> "end_load_balance", sid |-> thr[t].sid, rid |-> thr[t].rid])
    /\ UNCHANGED <<sessions, hmacTable, credited, resp>>

\* lines 599-601, load
EndLoadBalance(t) ==
    /\ At(t, "end_load_balance")
    /\ Goto(t, [pc |-> "end_store_balance", sid |-> thr[t].sid, rid |-> thr[t].rid,
                payout |-> rounds[thr[t].rid].outcome.payout,
                tmp |-> sessions[thr[t].sid].balance])
    /\ UNCHANGED <<sessions, rounds, hmacTable, credited, resp>>

\* lines 601-608, store
EndStoreBalance(t) ==
    /\ At(t, "end_store_balance")
    /\ sessions' = [sessions EXCEPT
                       ![thr[t].sid].balance = Credit(thr[t].tmp, thr[t].payout)]
    /\ credited' = [credited EXCEPT ![thr[t].rid] = @ + 1]
    /\ resp' = [op |-> "endround", code |-> "OK", session |-> thr[t].sid,
                arg |-> thr[t].rid, payout |-> thr[t].payout,
                balance |-> Credit(thr[t].tmp, thr[t].payout),
                status |-> "completed"]
    /\ Goto(t, Idle)
    /\ UNCHANGED <<rounds, hmacTable>>

\* authenticate touches no session that exists; it is taken in one step
AuthenticateStep ==
    /\ program = "app"
    /\ \E token \in Tokens : authenticate(token)
    /\ UNCHANGED <<program, sha, prior, thr, calc, smSessions, smResp, smAudit, rng>>

PlayStep ==
    /\ program = "app"
    /\ \E t \in Threads :
          \/ PlayEnter(t)
          \/ PlayLoadBalance(t)
          \/ PlayStoreBalance(t)
          \/ PlayLoadNonce(t)
          \/ PlayStoreNonce(t)
          \/ PlayDerive(t)
          \/ PlayCreate(t)
    /\ UNCHANGED <<program, sha, prior, calc, smSessions, smResp, smAudit, rng>>

EndRoundStep ==
    /\ program = "app"
    /\ \E t \in Threads :
          \/ EndEnter(t)
          \/ EndMark(t)
          \/ EndLoadBalance(t)
          \/ EndStoreBalance(t)
    /\ UNCHANGED <<program, sha, prior, calc, smSessions, smResp, smAudit, rng>>

InitConc == Init /\ program = "app"

NextConc == AuthenticateStep \/ PlayStep \/ EndRoundStep

SpecConc == InitConc /\ [][NextConc]_vars

----------------------------------------------------------------------------
(* Properties of the session and round lifecycle *)

\* the step is a call of handler `op` by session sid with argument arg
Called(op, sid, arg) ==
    /\ resp'.op = op
    /\ resp'.session = sid
    /\ resp'.arg = arg

Owned(sid) == {r \in DOMAIN rounds : rounds[r].session_id = sid}

\* C1: settlement is exactly-once. An endRound by the owning session on an
\* active round answers OK, credits the round's payout to the balance once and
\* marks the round completed; every later endRound on that round by a session
\* answers ROUND_COMPLETED and leaves all balances and rounds as they were.
SettlementExactlyOnce ==
    [][\A sid \in DOMAIN sessions, r \in DOMAIN rounds :
          Called("endround", sid, r) =>
             IF rounds[r].status = "active" /\ rounds[r].session_id = sid
             THEN /\ resp'.code = "OK"
                  /\ rounds'[r].status = "completed"
                  /\ sessions'[sid].balance =
                         sessions[sid].balance + rounds[r].outcome.payout
                  /\ credited[r] = 0 /\ credited'[r] = 1
             ELSE rounds[r].status = "completed" =>
                     /\ resp'.code = "ROUND_COMPLETED"
                     /\ UNCHANGED <<sessions, rounds, credited>>]_vars

\* a second endRound by the owner found the round settled, its payout credited
SecondSettlementRefused ==
    /\ resp.op = "endround"
    /\ resp.code = "ROUND_COMPLETED"
    /\ resp.arg \in Owned(resp.session)
    /\ credited[resp.arg] = 1
    /\ rounds[resp.arg].outcome.payout > 0

\* C4: every session's balance is >= 0, and a play that is accepted debits a
\* bet no larger than the balance held when the call starts.
BalanceNonNegative ==
    /\ [](\A sid \in DOMAIN sessions : sessions[sid].balance >= 0)
    /\ [][\A sid \in DOMAIN sessions :
             (/\ resp'.op = "play" /\ resp'.session = sid /\ resp'.code = "OK"
              /\ DOMAIN rounds' # DOMAIN rounds) =>
                /\ resp'.arg <= sessions[sid].balance
                /\ sessions'[sid].balance = sessions[sid].balance - resp'.arg]_vars

\* a play took the whole balance, and the next play was refused for it
BalanceExhausted ==
    /\ resp.op = "play"
    /\ resp.code = "INSUFFICIENT_BALANCE"
    /\ sessions[resp.session].balance < MIN_BET
    /\ Owned(resp.session) # {}

RECURSIVE SumBets(_)
SumBets(rs) ==
    IF rs = {} THEN 0
    ELSE LET r == CHOOSE x \in rs : TRUE IN rounds[r].bet + SumBets(rs \ {r})

RECURSIVE SumPayouts(_)
SumPayouts(rs) ==
    IF rs = {} THEN 0
    ELSE LET r == CHOOSE x \in rs : TRUE
         IN rounds[r].outcome.payout + SumPayouts(rs \ {r})

Completed(sid) == {r \in Owned(sid) : rounds[r].status = "completed"}

\* C5: the balance of a session is its starting balance, less the bets of all
\* rounds created for it, plus the payouts of its completed rounds; the payout
\* of a round that is not settled is not in the balance.
BalanceAccounting ==
    \A sid \in DOMAIN sessions :
       sessions[sid].balance =
           START_BALANCE - (prior[sid] * MAX_BET + SumBets(Owned(sid)))
               + SumPayouts(Completed(sid))

\* a session with a settled winning round and an unsettled winning round
SettledAndUnsettledWins ==
    \E sid \in DOMAIN sessions :
       /\ \E r \in Completed(sid) : rounds[r].outcome.payout > 0
       /\ \E r \in Owned(sid) \ Completed(sid) : rounds[r].outcome.payout > 0

----------------------------------------------------------------------------
(* Properties of app.py under the threaded server *)

\* C2: two play calls running concurrently on one session never take the
\* balance below zero, whatever the interleaving of their steps.
ConcurrentPlaysKeepBalance ==
    \A sid \in ConcTokens :
       sid \in DOMAIN sessions => sessions[sid].balance >= 0

\* C3: two endRound calls running concurrently on one active round credit its
\* payout at most once.
ConcurrentSettlementCreditsOnce ==
    \A r \in RoundIds : credited[r] <= 1

----------------------------------------------------------------------------
(* Properties of the validation of calls *)

OutOfRange(bet) == bet < MIN_BET \/ bet > MAX_BET

OffStep(bet) == bet % STEP_BET # 0

\* C6: play by a known session with a bet below the minimum, above the
\* maximum or not a multiple of the bet step answers INVALID_BET and creates
\* no round; every round is of a bet in [min, max] that is a multiple of the
\* step.
InvalidBetsRejected ==
    [][\A sid \in DOMAIN sessions, bet \in BetInputs :
          (Called("play", sid, bet) /\ (OutOfRange(bet) \/ OffStep(bet))) =>
             /\ resp'.code = "INVALID_BET"
             /\ rounds' = rounds]_vars

\* C7 as stated: endRound by a known session on a round of a different
\* session answers SESSION_MISMATCH whether the round is active or completed
\* and changes no balance and no round; an unknown round id answers
\* ROUND_NOT_FOUND.
ForeignRoundAlwaysMismatch ==
    [][\A sid \in DOMAIN sessions, r \in RoundIds :
          Called("endround", sid, r) =>
             IF r \notin DOMAIN rounds
             THEN resp'.code = "ROUND_NOT_FOUND"
             ELSE rounds[r].session_id # sid =>
                     /\ resp'.code = "SESSION_MISMATCH"
                     /\ UNCHANGED <<sessions, rounds, credited>>]_vars

\* C7: endRound by a known session on a round of a different session answers
\* SESSION_MISMATCH when the round is active and ROUND_COMPLETED when it is
\* already completed, and in both cases changes no balance and no round; an
\* unknown round id answers ROUND_NOT_FOUND.
ForeignRoundRefused ==
    [][\A sid \in DOMAIN sessions, r \in RoundIds :
          Called("endround", sid, r) =>
             IF r \notin DOMAIN rounds
             THEN resp'.code = "ROUND_NOT_FOUND"
             ELSE rounds[r].session_id # sid =>
                     /\ resp'.code = IF rounds[r].status = "active"
                                     THEN "SESSION_MISMATCH"
                                     ELSE "ROUND_COMPLETED"
                     /\ UNCHANGED <<sessions, rounds, credited>>]_vars

\* a session asked to settle a completed round of another session
ForeignCompletedRoundAsked ==
    /\ resp.op = "endround"
    /\ resp.session \in DOMAIN sessions
    /\ resp.arg \in DOMAIN rounds
    /\ rounds[resp.arg].session_id # resp.session
    /\ rounds[resp.arg].status = "completed"
    /\ resp.code = "ROUND_COMPLETED"

\* C8: a rejected call mutates no state. A play or endRound that answers an
\* error leaves every session (balance, nonce) and every round (existence,
\* status) as it was; a play_round refused for an unknown user or an invalid
\* bet leaves round_count and the RNG nonce of every session as they were.
RejectedCallsKeepState ==
    /\ [][(resp'.op \in {"play", "endround"} /\ resp'.code # "OK") =>
             /\ resp'.code \in {"SESSION_EXPIRED", "INVALID_BET",
                                "INSUFFICIENT_BALANCE", "ROUND_NOT_FOUND",
                                "SESSION_MISMATCH", "ROUND_COMPLETED"}
             /\ UNCHANGED <<sessions, rounds, credited>>]_vars
    /\ [][(smResp'.op = "play_round" /\ smResp'.code # "OK") =>
             /\ smResp'.code \in {"NO_SESSION", "INVALID_BET"}
             /\ UNCHANGED smSessions]_vars

\* play_round refused an invalid bet of a user who had played rounds
InvalidBetAfterRounds ==
    /\ smResp.op = "play_round"
    /\ smResp.code = "INVALID_BET"
    /\ smResp.user \in DOMAIN smSessions
    /\ smSessions[smResp.user].round_count > 0
    /\ smSessions[smResp.user].nonce > NONCE_START

----------------------------------------------------------------------------
(* Properties of the payout *)

\* C9: the payout is bounded. calculate_outcome gives a multiplier of at most
\* MAX_WIN_MULTIPLIER and a payout of at most bet * MAX_WIN_MULTIPLIER, for
\* every round the server creates too; calculate_final_payout on a valid bet
\* gives a final payout of at most bet * MAX_WIN_MULTIPLIER of the
\* configuration and a final multiplier of at most that maximum, for every
\* round play_round returns too.
PayoutBound ==
    /\ calc.op = "calculate_outcome" =>
          /\ RLe(calc.result.multiplier, Whole(MAX_WIN_MULTIPLIER))
          /\ calc.result.payout <= calc.bet * MAX_WIN_MULTIPLIER
    /\ \A r \in DOMAIN rounds :
          /\ RLe(rounds[r].outcome.multiplier, Whole(MAX_WIN_MULTIPLIER))
          /\ rounds[r].outcome.payout <= rounds[r].bet * MAX_WIN_MULTIPLIER
    /\ (calc.op = "calculate_final_payout" /\ validate_bet(calc.bet_amount)) =>
          /\ RLe(calc.result.final_payout,
                 RMul(calc.bet_amount, Whole(CONFIG_MAX_WIN_MULTIPLIER)))
          /\ RLe(calc.result.final_multiplier, Whole(CONFIG_MAX_WIN_MULTIPLIER))
    /\ (smResp.op = "play_round" /\ smResp.code = "OK") =>
          /\ RLe(smResp.result.final_payout,
                 RMul(smResp.result.bet_amount, Whole(CONFIG_MAX_WIN_MULTIPLIER)))
          /\ RLe(smResp.result.final_multiplier, Whole(CONFIG_MAX_WIN_MULTIPLIER))

\* a jackpot whose bonus would take the multiplier past the cap: it is paid at
\* exactly bet * MAX_WIN_MULTIPLIER
OutcomeAtCap ==
    /\ calc.op = "calculate_outcome"
    /\ calc.result.black_hole_triggered
    /\ RLt(Whole(MAX_WIN_MULTIPLIER),
           RMul(TierOf(calc.rng_value).multiplier,
                calc.result.black_hole_multiplier))
    /\ calc.result.multiplier = Whole(MAX_WIN_MULTIPLIER)
    /\ calc.result.payout = calc.bet * MAX_WIN_MULTIPLIER

\* the number of items of a type in a list
CountOf(collectibles, type) ==
    Cardinality({i \in DOMAIN collectibles : collectibles[i] = type})

\* the sum of the value_multiplier of the items of the first k configured types
RECURSIVE ValueSum(_, _)
ValueSum(collectibles, k) ==
    IF k = 0
    THEN Whole(0)
    ELSE RAdd(ValueSum(collectibles, k - 1),
              RMul(Whole(CountOf(collectibles, CollectibleTypes[k])),
                   value_multiplier(CollectibleTypes[k])))

\* C10: calculate_final_payout returns
\* min((bet * base + bet * sum of the items' value_multiplier) * bonus,
\* bet * MAX_WIN_MULTIPLIER), items of a type that is not configured counting
\* 0; with no items and a bonus of 1.0 that is min(bet * base, bet * MAX).
FinalPayoutComposition ==
    calc.op = "calculate_final_payout" =>
       LET bet == calc.bet_amount
           cap == RMul(bet, Whole(CONFIG_MAX_WIN_MULTIPLIER))
           layered == RMul(RAdd(RMul(bet, calc.base_multiplier),
                                RMul(bet, ValueSum(calc.collectibles,
                                                   Len(CollectibleTypes)))),
                           calc.black_hole_multiplier)
       IN /\ calc.result.final_payout = RMin(layered, cap)
          /\ (calc.collectibles = <<>> /\ calc.black_hole_multiplier = Whole(1)) =>
                calc.result.final_payout = RMin(RMul(bet, calc.base_multiplier), cap)

\* a payout below the cap built from a base, a configured item, an item of an
\* unknown type and a bonus
LayeredPayoutWithUnknownItem ==
    /\ calc.op = "calculate_final_payout"
    /\ validate_bet(calc.bet_amount)
    /\ RLt(Whole(1), calc.base_multiplier)
    /\ RLt(Whole(1), calc.black_hole_multiplier)
    /\ \E i \in DOMAIN calc.collectibles : calc.collectibles[i] = "mystery"
    /\ \E i \in DOMAIN calc.collectibles : InCollectibles(calc.collectibles[i])
    /\ RLt(calc.result.final_payout,
           RMul(calc.bet_amount, Whole(CONFIG_MAX_WIN_MULTIPLIER)))

----------------------------------------------------------------------------
(* Properties of the weighted selection *)

\* the entries of a table whose cumulative weight reaches the threshold
MatchesOf(table, threshold) ==
    {i \in DOMAIN table : RLe(threshold, SumWeights(table, i))}

MinOf(S) == CHOOSE i \in S : \A j \in S : i <= j

\* C11: a selector returns the value of the first entry, in table order, whose
\* cumulative weight is >= r * total weight, and the value of the last entry
\* when there is none; the result is a value of the table, every r in [0,1]
\* has a matching entry, and r = 0 selects the first entry.
SelectionFirstMatch ==
    calc.op = "select" =>
       LET table == TableOf(calc.table)
           r == calc.random_value
           matches == MatchesOf(table, RMul(r, SumWeights(table, Len(table))))
       IN /\ calc.result \in TableValues(table)
          /\ matches # {} => calc.result = table[MinOf(matches)][1]
          /\ matches = {} => calc.result = table[Len(table)][1]
          /\ (RLe(Whole(0), r) /\ RLe(r, Whole(1))) => matches # {}
          /\ r = Whole(0) => calc.result = table[1][1]

\* a draw strictly inside (0,1) that selected an entry in the middle of a table
MiddleEntrySelected ==
    /\ calc.op = "select"
    /\ RLt(Whole(0), calc.random_value)
    /\ RLt(calc.random_value, Whole(1))
    /\ calc.result = TableOf(calc.table)[3][1]

----------------------------------------------------------------------------
(* Properties of the base derivation *)

\* C12: the base random value is in [0,1): every value generate_random
\* returns and every value provably_fair_rng gives a round is >= 0 and < 1.
BaseValueBelowOne ==
    /\ calc.op = "generate_random" =>
          RLe(Whole(0), calc.value) /\ RLt(calc.value, Whole(1))
    /\ \A r \in DOMAIN rounds :
          RLe(Whole(0), rounds[r].rng_value) /\ RLt(rounds[r].rng_value, Whole(1))

\* the nonces and values the object returned, as the caller recorded them
Returned == {rng.returned[i] : i \in DOMAIN rng.returned}

\* C13: verify_result called with the seeds of the object, a nonce n and the
\* value generate_random returned at nonce n answers true, and a call of
\* verify_result leaves the object (its nonce) as it was.
VerificationRoundTrip ==
    [][calc'.op = "verify_result" =>
          /\ rng' = rng
          /\ ( /\ calc'.server_seed = rng.server_seed
               /\ calc'.client_seed = rng.client_seed
               /\ [nonce |-> calc'.nonce, value |-> calc'.expected_value]
                     \in Returned )
                => calc'.result = TRUE]_vars

\* the second value the object returned was verified, after the nonce moved on
SecondValueVerified ==
    /\ calc.op = "verify_result"
    /\ calc.result = TRUE
    /\ Len(rng.returned) = 2
    /\ calc.nonce = rng.returned[2].nonce
    /\ calc.expected_value = rng.returned[2].value
    /\ rng.returned[1].value # rng.returned[2].value
    /\ rng.nonce = calc.nonce + 1

\* C14: the rounds of a session are derived with pairwise distinct nonces
\* that increase in the order the rounds are created, also when play calls
\* on the session interleave.
RoundNoncesIncrease ==
    \A r1 \in DOMAIN rounds, r2 \in DOMAIN rounds :
       (r1 < r2 /\ rounds[r1].session_id = rounds[r2].session_id) =>
          rounds[r1].drawn_nonce < rounds[r2].drawn_nonce

\* C15: the base value of a round is the derivation verify_result checks:
\* verify(server_seed, client_seed, nonce, base value of the round) with the
\* seeds of the round's session and the round's nonce is true.
RoundBaseValueVerifies ==
    (program = "audit" /\ calc.op = "verify_result") => calc.result = TRUE

----------------------------------------------------------------------------
(* Properties of the outcome *)

\* C17: the tiers of the base value. Below 0.40 the multiplier is 0, the
\* payout 0 and is_loss true; from 0.40 up to 0.75 the multiplier lies
\* strictly between 0.5 and 2.0, there is no bonus and is_loss is false; from
\* 0.99 on the multiplier is at least 100 and at most MAX_WIN_MULTIPLIER; and
\* is_loss is true exactly when the payout is 0.
TierMapping ==
    calc.op = "calculate_outcome" =>
       LET v == calc.rng_value
           o == calc.result
       IN /\ RLt(v, Frac(40, 100)) =>
                /\ o.multiplier = Whole(0)
                /\ o.payout = 0
                /\ o.is_loss
          /\ (RLe(Frac(40, 100), v) /\ RLt(v, Frac(75, 100))) =>
                /\ RLt(Frac(1, 2), o.multiplier)
                /\ RLt(o.multiplier, Whole(2))
                /\ ~o.black_hole_triggered
                /\ o.black_hole_multiplier = Whole(1)
                /\ ~o.is_loss
          /\ RLe(Frac(99, 100), v) =>
                /\ RLe(Whole(100), o.multiplier)
                /\ RLe(o.multiplier, Whole(MAX_WIN_MULTIPLIER))
          /\ o.is_loss <=> (o.payout = 0)

\* the base value 0.50 resolved for the least bet: a small win, not a loss
SmallWinAtHalf ==
    /\ calc.op = "calculate_outcome"
    /\ calc.rng_value = Frac(1, 2)
    /\ calc.bet = MIN_BET
    /\ ~calc.result.is_loss
    /\ calc.result.payout > 0
    /\ RLt(calc.result.multiplier, Whole(1))

----------------------------------------------------------------------------
(* The corridor guarantees of the world plan *)

\* C18: every guide row of a plan leaves a gap between 200 and 350 wide that
\* lies inside [left_bound, right_bound], its left and right clouds cover the
\* rest of the corridor width, there are at least five rows, and every row is
\* at a height y with DEADZONE <= y < terminal depth
GuideRowsLeaveGap ==
    calc.op = "generate_world_plan" =>
        LET plan == calc.result
            clouds == plan.guide_clouds
            heights == {clouds[k].y : k \in DOMAIN clouds}
            lo == Whole(plan.corridor.left_bound)
            hi == Whole(plan.corridor.right_bound)
            \* the row at height y is a left and a right cloud around a gap
            \* inside the corridor, and they cover the corridor outside it
            RowLeavesGap(y) ==
                LET at == {k \in DOMAIN clouds : clouds[k].y = y}
                IN \E l \in at, r \in at :
                      /\ l # r
                      /\ at = {l, r}
                      /\ LET gap_left == RAdd(clouds[l].x, CLOUD1_W)
                             gap_right == clouds[r].x
                             gap == RSub(gap_right, gap_left)
                         IN /\ RLe(Whole(200), gap) /\ RLe(gap, Whole(350))
                            /\ RLe(lo, gap_left) /\ RLe(gap_right, hi)
                            /\ RLe(clouds[l].x, lo)
                            /\ RLe(hi, RAdd(clouds[r].x, CLOUD1_W))
        IN /\ Cardinality(heights) >= 5
           /\ \A y \in heights :
                 /\ DEADZONE <= y
                 /\ y < plan.terminal_depth
                 /\ RowLeavesGap(y)

\* a plan of more than five rows, one of them with the gap as far left as it
\* goes (140 inside the left bound)
DeepPlanWithLeftmostGap ==
    /\ calc.op = "generate_world_plan"
    /\ Cardinality({calc.result.guide_clouds[k].y :
                        k \in DOMAIN calc.result.guide_clouds}) > 5
    /\ \E k \in DOMAIN calc.result.guide_clouds :
          RAdd(calc.result.guide_clouds[k].x, CLOUD1_W)
              = Whole(calc.result.corridor.left_bound + 140)

\* every x of [lo, hi] lies in one of the closed intervals: lo does, hi does,
\* and at every right end inside [lo, hi) another interval goes on
Covered(intervals, lo, hi) ==
    /\ \A p \in {lo} \cup {i[2] : i \in {j \in intervals :
                                          RLe(lo, j[2]) /\ RLt(j[2], hi)}} :
          \E i \in intervals : RLe(i[1], p) /\ RLt(p, i[2])
    /\ \E i \in intervals : RLe(i[1], hi) /\ RLe(hi, i[2])

\* C19 as stated: the closure is one of the three templates at the terminal
\* depth, every x of the corridor lies under a closure cloud placed at
\* y = terminal depth, and no closure cloud is below the terminal depth
ClosureSealsAtTerminalDepth ==
    calc.op = "generate_world_plan" =>
        LET plan == calc.result
            closure == plan.terminal_closure
            clouds == {closure.clouds[k] : k \in DOMAIN closure.clouds}
        IN /\ closure.template \in {"FLAT_SEAL", "OFFSET_SEAL", "FUNNEL_COLLAPSE"}
           /\ closure.depth = plan.terminal_depth
           \* the extent of a cloud drawn at its scale from its x
           /\ Covered({<<c.x, RAdd(c.x, RMul(CLOUD1_W, c.scale))>> :
                           c \in {d \in clouds : d.y = plan.terminal_depth}},
                      Whole(plan.corridor.left_bound),
                      Whole(plan.corridor.right_bound))
           /\ \A c \in clouds : c.y <= plan.terminal_depth

\* C19, amended: the closure is one of the three templates at the terminal
\* depth, it has a cloud at y = terminal depth, every x of the corridor lies
\* under the extent [x, x + CLOUD1_W] of a closure cloud placed at most 500
\* above the terminal depth, and no closure cloud is below the terminal depth
ClosureSealsCorridor ==
    calc.op = "generate_world_plan" =>
        LET plan == calc.result
            closure == plan.terminal_closure
            clouds == {closure.clouds[k] : k \in DOMAIN closure.clouds}
        IN /\ closure.template \in {"FLAT_SEAL", "OFFSET_SEAL", "FUNNEL_COLLAPSE"}
           /\ closure.depth = plan.terminal_depth
           /\ \E c \in clouds : c.y = plan.terminal_depth
           /\ Covered({<<c.x, RAdd(c.x, CLOUD1_W)>> : c \in clouds},
                      Whole(plan.corridor.left_bound),
                      Whole(plan.corridor.right_bound))
           /\ \A c \in clouds :
                 /\ c.y <= plan.terminal_depth
                 /\ plan.terminal_depth - 500 <= c.y

\* a funnel closure: one cloud at the terminal depth, the others above it
FunnelClosure ==
    /\ calc.op = "generate_world_plan"
    /\ calc.result.terminal_closure.template = "FUNNEL_COLLAPSE"
    /\ Cardinality({k \in DOMAIN calc.result.terminal_closure.clouds :
                       calc.result.terminal_closure.clouds[k].y
                           = calc.result.terminal_depth}) = 1

----------------------------------------------------------------------------
(* SessionManager: reveal and retirement *)

\* C20: end_session returns the session's server seed, client seed and final
\* nonce and removes the session; play_round and end_session for a user
\* without a session answer 'no session found' and change nothing; no session
\* holds a revealed server seed and no round is derived from one
SessionRetiredAfterReveal ==
    /\ [](\A u \in DOMAIN smSessions :
              smSessions[u].server_seed \notin smAudit.revealed)
    /\ [][\A u \in Users \cup {UnknownUser} :
              /\ (smResp'.op = "end_session" /\ smResp'.user = u) =>
                    IF u \in DOMAIN smSessions
                    THEN /\ smResp'.code = "OK"
                         /\ smResp'.server_seed = smSessions[u].server_seed
                         /\ smResp'.client_seed = smSessions[u].client_seed
                         /\ smResp'.final_nonce = smSessions[u].nonce
                         /\ u \notin DOMAIN smSessions'
                         /\ smSessions[u].server_seed \in smAudit'.revealed
                    ELSE /\ smResp'.code = "NO_SESSION"
                         /\ smSessions' = smSessions
              /\ (smResp'.op = "play_round" /\ smResp'.user = u) =>
                    /\ u \notin DOMAIN smSessions =>
                          /\ smResp'.code = "NO_SESSION"
                          /\ smSessions' = smSessions
                    /\ smResp'.code = "OK" =>
                          /\ u \in DOMAIN smSessions
                          /\ smResp'.result.server_seed_hash
                                 = get_server_seed_hash(smSessions[u].server_seed)
                          /\ smSessions[u].server_seed \notin smAudit.revealed]_vars

\* a user whose session was ended asks for a round and is refused
PlayAfterEndRefused ==
    /\ smResp.op = "play_round"
    /\ smResp.code = "NO_SESSION"
    /\ smResp.user \in Users
    /\ smAudit.revealed # {}

----------------------------------------------------------------------------
(* Secrecy of the server seed *)

\* C21: no answer of authenticate, play or endRound carries the server seed
\* of a session, and an answer of the session manager that carries a server
\* seed it issued is an answer of end_session; create_session and play_round
\* carry the seed's hash and the client seed only
ServerSeedSecret ==
    LET SeedFields == {"server_seed", "server_seed_hash", "client_seed"}
        Carries(r, seed) == \E f \in DOMAIN r \cap SeedFields : r[f] = seed
        issued == {_generate_server_seed(k) : k \in 1..smAudit.issued}
        played == smResp.op = "play_round" /\ smResp.code = "OK"
    IN /\ \A sid \in DOMAIN sessions : ~Carries(resp, sessions[sid].server_seed)
       /\ \A seed \in issued :
             (\/ Carries(smResp, seed)
              \/ played /\ Carries(smResp.verification, seed)
              \/ played /\ \E i \in DOMAIN smResp.events :
                              Carries(smResp.events[i], seed))
                => smResp.op = "end_session"
       /\ played =>
             \A u \in DOMAIN smSessions :
                smResp.user = u =>
                   /\ smResp.verification.server_seed_hash
                          = get_server_seed_hash(smSessions[u].server_seed)
                   /\ smResp.verification.client_seed = smSessions[u].client_seed

\* a round was played and answered with the hash of the seed the session
\* still holds
HashReturnedWhileSeedLive ==
    /\ smResp.op = "play_round"
    /\ smResp.code = "OK"
    /\ smResp.user \in DOMAIN smSessions
    /\ smResp.events[1].server_seed_hash
           = get_server_seed_hash(smSessions[smResp.user].server_seed)
    /\ smSessions[smResp.user].server_seed \notin smAudit.revealed

----------------------------------------------------------------------------
(* Return to player *)

\* C22: the weighted average multiplier of the primary table lies within
\* RTP_TOLERANCE of TARGET_RTP, the probabilities of the table are
\* non-negative and sum to 1, and the SDK adapter computes the same return
\* as calculate_theoretical_rtp
TheoreticalReturnOnTarget ==
    calc.op = "compare_with_custom_math" =>
        /\ RLe(RSub(TARGET_RTP, RTP_TOLERANCE), calc.custom_rtp)
        /\ RLe(calc.custom_rtp, RAdd(TARGET_RTP, RTP_TOLERANCE))
        /\ \A i \in DOMAIN calc.sdk.outcomes :
              RLe(Whole(0), calc.sdk.outcomes[i].probability)
        /\ calc.sdk.total_probability = Whole(1)
        /\ calc.sdk.theoretical_rtp = calc.custom_rtp

\* the two computations were made and gave 94.825 %
ReturnComputed ==
    /\ calc.op = "compare_with_custom_math"
    /\ calc.custom_rtp = Frac(94825, 100000)
    /\ calc.sdk.num_outcomes = Len(MULTIPLIER_WEIGHTS)

\* C23: the expected payout per unit bet of a round as generate_round_result
\* pays it (base multiplier plus collectible bonus, times the black hole
\* multiplier when it triggers; the win cap of 10000 is out of reach of
\* (200 + 1.55) * 10) lies within RTP_TOLERANCE of the theoretical return of
\* the primary table
SettledReturnConverges ==
    calc.op = "compare_with_custom_math" =>
    LET \* one draw per possible item, each adds value_multiplier if it succeeds
        bonus_table ==
            [i \in DOMAIN CollectibleTypes |->
                <<i, RMul(Whole(max_per_round(CollectibleTypes[i])),
                          RMul(spawn_probability(CollectibleTypes[i]),
                               value_multiplier(CollectibleTypes[i])))>>]
        expected_bonus == SumWeights(bonus_table, Len(bonus_table))
        bh_table ==
            [i \in DOMAIN BLACK_HOLE_WEIGHTS |->
                <<i, RMul(BLACK_HOLE_WEIGHTS[i][1],
                          RDiv(BLACK_HOLE_WEIGHTS[i][2],
                               get_total_black_hole_weight))>>]
        expected_factor ==
            RAdd(RSub(Whole(1), BLACK_HOLE_TRIGGER_PROBABILITY),
                 RMul(BLACK_HOLE_TRIGGER_PROBABILITY,
                      SumWeights(bh_table, Len(bh_table))))
        theoretical == calc.custom_rtp
        \* the expected return is before_bonus * expected_factor; the bounds
        \* are divided by the factor to keep the products small
        before_bonus == RAdd(theoretical, expected_bonus)
    IN /\ RLe(RDiv(RSub(theoretical, RTP_TOLERANCE), expected_factor), before_bonus)
       /\ RLe(before_bonus, RDiv(RAdd(theoretical, RTP_TOLERANCE), expected_factor))

----------------------------------------------------------------------------
(* The round lifecycle *)

\* C24: a round is created active; its status only ever changes from active
\* to completed; its owner, bet, base value, outcome and plan never change;
\* and no step removes a round from the store.
RoundLifecycle ==
    [][/\ DOMAIN rounds \subseteq DOMAIN rounds'
       /\ \A rid \in DOMAIN rounds' \ DOMAIN rounds :
              rounds'[rid].status = "active"
       /\ \A rid \in DOMAIN rounds :
              /\ rounds'[rid].status # rounds[rid].status =>
                     /\ rounds[rid].status = "active"
                     /\ rounds'[rid].status = "completed"
              /\ rounds'[rid].session_id = rounds[rid].session_id
              /\ rounds'[rid].bet = rounds[rid].bet
              /\ rounds'[rid].rng_value = rounds[rid].rng_value
              /\ rounds'[rid].outcome = rounds[rid].outcome
              /\ rounds'[rid].world_plan = rounds[rid].world_plan]_vars

\* a completed round was asked to end again while a later round is active
CompletedRoundKept ==
    /\ resp.op = "endround"
    /\ resp.code = "ROUND_COMPLETED"
    /\ rounds[resp.arg].status = "completed"
    /\ \E rid \in DOMAIN rounds : rid > resp.arg /\ rounds[rid].status = "active"

----------------------------------------------------------------------------
(* Session isolation *)

\* C25: a play or endRound call made with session S, accepted or refused,
\* leaves every other session's record as it was, changes of S's record only
\* the balance and the nonce, leaves every round of another session as it
\* was, and creates rounds only for S.
SessionIsolation ==
    [][resp'.op \in {"play", "endround"} =>
          /\ DOMAIN sessions' = DOMAIN sessions
          /\ \A s \in DOMAIN sessions :
                 /\ s # resp'.session => sessions'[s] = sessions[s]
                 /\ sessions'[s].server_seed = sessions[s].server_seed
                 /\ sessions'[s].client_seed = sessions[s].client_seed
          /\ \A rid \in DOMAIN rounds :
                 rounds[rid].session_id # resp'.session =>
                     /\ rid \in DOMAIN rounds'
                     /\ rounds'[rid] = rounds[rid]
          /\ \A rid \in DOMAIN rounds' \ DOMAIN rounds :
                 rounds'[rid].session_id = resp'.session]_vars

\* a session settled its round while another session, which has played,
\* holds an active round
SettledBesideAnotherSession ==
    /\ resp.op = "endround"
    /\ resp.code = "OK"
    /\ \E rid \in DOMAIN rounds :
           /\ rounds[rid].session_id # resp.session
           /\ rounds[rid].status = "active"
           /\ sessions[rounds[rid].session_id].nonce > 0

----------------------------------------------------------------------------
(* Terminal depth and payout *)

\* C26: the terminal depth is a non-decreasing function of the final
\* multiplier: the outcome of any other base value with the same final
\* multiplier has the same terminal depth, and one with a smaller final
\* multiplier has no greater terminal depth.
DepthFollowsMultiplier ==
    calc.op = "calculate_outcome" =>
       \A h \in 0..(DigestRange - 1) :
          LET o == calc.result
              other == calculate_outcome(DigestFraction(h), calc.bet)
          IN /\ (RLe(other.multiplier, o.multiplier)
                 /\ RLe(o.multiplier, other.multiplier)) =>
                    other.terminal_depth_y = o.terminal_depth_y
             /\ RLt(other.multiplier, o.multiplier) =>
                    other.terminal_depth_y <= o.terminal_depth_y

\* C27: in the round_start event of every round played, max_payout_at_ground
\* is at least the round's committed final payout.
GroundPayoutCoversCommitted ==
    (smResp.op = "play_round" /\ smResp.code = "OK") =>
        RLe(smResp.result.final_payout, smResp.events[1].max_payout_at_ground)

----------------------------------------------------------------------------
(* The black hole of the world plan *)

\* C28: the plan holds a black hole exactly when the outcome's bonus was
\* triggered; its depth is at least DEADZONE and less than the terminal depth,
\* and its x lies between the corridor's bounds.
BlackHolePlacement ==
    calc.op = "generate_world_plan" =>
       LET plan == calc.result
           triggered == calc.outcome.black_hole_triggered
       IN /\ (plan.black_hole = NoBlackHole) <=> ~triggered
          /\ triggered =>
                /\ plan.black_hole.will_trigger
                /\ DEADZONE <= plan.black_hole.y
                /\ plan.black_hole.y < calc.outcome.terminal_depth_y
                /\ RLe(Whole(plan.corridor.left_bound), plan.black_hole.x)
                /\ RLe(plan.black_hole.x, Whole(plan.corridor.right_bound))

\* a medium win whose bonus was triggered: the plan holds a black hole, left
\* of the corridor's centre
BlackHoleInMediumWin ==
    /\ calc.op = "generate_world_plan"
    /\ calc.outcome.black_hole_triggered
    /\ calc.outcome.terminal_depth_y < GROUND_Y - 200
    /\ calc.result.black_hole # NoBlackHole
    /\ RLt(calc.result.black_hole.x, Whole(CORRIDOR_CENTER - 150))

----------------------------------------------------------------------------
(* The event lists *)

\* the ordering rules of an event list, for a round with n collectibles and
\* a bonus that was or was not triggered
EventsInOrder(events, n, triggered) ==
    LET at(t) == {i \in DOMAIN events : events[i].type = t}
    IN /\ Len(events) >= 2
       /\ at("round_start") = {1}
       /\ at("round_end") = {Len(events)}
       /\ Cardinality(at("collectible")) = n
       /\ at("bonus_enter") # {} <=> triggered
       /\ Cardinality(at("bonus_enter")) <= 1
       /\ at("bonus_exit") = {i + 1 : i \in at("bonus_enter")}
       /\ \A i \in at("collectible") :
             \A j \in at("bonus_enter") \cup at("bonus_exit") : i < j

\* C29: the event list of a played round and the visual timeline of a plan
\* begin with the only round_start and end with the only round_end, which
\* carries the final payout; there is one collectible event per collectible
\* of the round; bonus_enter, immediately followed by bonus_exit, appears
\* exactly when the bonus was triggered; and collectible events come before
\* the bonus events.
EventOrdering ==
    /\ (smResp.op = "play_round" /\ smResp.code = "OK") =>
          /\ EventsInOrder(smResp.events, Len(smResp.result.collectibles),
                           smResp.result.black_hole_triggered)
          /\ smResp.events[Len(smResp.events)].final_payout
                = smResp.result.final_payout
    /\ calc.op = "generate_world_plan" =>
          /\ EventsInOrder(calc.visual_timeline, 0,
                           calc.outcome.black_hole_triggered)
          /\ calc.visual_timeline[Len(calc.visual_timeline)].value
                = calc.outcome.payout

\* a round with a collectible and a triggered bonus: round_start, the
\* collectible, bonus_enter, bonus_exit, win, round_end
RoundWithCollectibleAndBonus ==
    /\ smResp.op = "play_round"
    /\ smResp.code = "OK"
    /\ smResp.result.collectibles # <<>>
    /\ smResp.result.black_hole_triggered
    /\ Len(smResp.events) >= 6

----------------------------------------------------------------------------
(* The nonce a round reports *)

\* C30: the nonce in the result of a played round, repeated in its
\* round_start and round_end events, is the RNG nonce the round's base
\* multiplier was drawn with, whether or not the bonus was triggered.
ReportedNonceIsBaseDraw ==
    (smResp.op = "play_round" /\ smResp.code = "OK") =>
        /\ smResp.result.nonce = smResp.result.base_draw_nonce
        /\ smResp.events[1].nonce = smResp.result.base_draw_nonce
        /\ smResp.events[Len(smResp.events)].nonce = smResp.result.base_draw_nonce

====
